---- MODULE Spec2Model ----
(***************************************************************************)
(* Model of the job runner: instance naming and project-scoped clean-up    *)
(* of the LXD provider, the scoped launched_environment, and the pipeline  *)
(* executor (run / run-one).                                               *)
(*                                                                         *)
(* Strings that the code inspects character by character (instance names,  *)
(* project names, identifiers) are sequences of one-character strings.     *)
(***************************************************************************)
EXTENDS Integers, Sequences, FiniteSets, TLC

VARIABLES
    \* ---- get_instance_name calls (SpecName)
    nm_project,     \* project_name of the calls
    nm_inode,       \* project_path.stat().st_ino
    issued,         \* the calls made so far: [series, architecture, name]
    \* ---- clean_project_environments (SpecClean)
    cl_pc,          \* position in the method
    cl_project,     \* project_name argument
    cl_inode,       \* project_path.stat().st_ino
    cl_given,       \* the instances argument (<<>> when empty or absent)
    cl_installed,   \* lxd_installer.is_installed()
    cl_listing,     \* what lxc.list_names reports: the namespace at the call
    cl_lxd,         \* the set of instances existing in the provider's namespace
    cl_instances,   \* the local variable instances after line 138-144
    cl_i,           \* loop index of "for instance in instances"
    cl_deleted,     \* the local list deleted
    cl_calls,       \* lxc.delete calls made, in order
    cl_result,      \* the value returned, or the error raised
    \* ---- launched_environment (SpecEnv)
    env_pc,         \* position in the context manager
    env_project,    \* project_name argument
    env_series,     \* series argument
    env_instance,   \* "none", "running" or "stopped": the instance the launcher returned
    env_calls,      \* calls made on the instance, in order: [op, ok]
    env_yielded,    \* whether the instance was yielded to the body
    env_exc,        \* the exception in flight ("none" if none); at "exit", what the caller gets
    \* ---- run and run-one (SpecRun)
    run_cmd,        \* "run" or "run-one"
    run_clean,      \* args.clean
    run_pipeline,   \* config.pipeline: stages of job names
    run_jobs,       \* config.jobs: job name -> variants (<<>> when not defined)
    run_one_job,    \* args.job of run-one
    run_one_index,  \* args.index of run-one
    run_pc,         \* position in the command
    run_si,         \* index of the stage being run
    run_ji,         \* index of the job in the stage
    run_vi,         \* index of the variant in the job
    run_job,        \* the local variable job of run(): Unbound or a variant
    run_stage_failed, \* the local variable stage_failed
    run_exc,        \* the exception in flight
    run_errors,     \* emit.error calls, in order
    run_attempts,   \* jobs whose try block was entered: [stage, pos, job, exc]
    run_calls,      \* _run_job calls, in order: [stage, pos, job, index]
    run_launched,   \* instances launched, in order: [stage, pos, job, index, name]
    run_cleaned,    \* instances arguments of clean_project_environments, in order
    run_lxd,        \* the set of instances existing in the provider's namespace
    run_package_repositories, \* the list args.package_repositories
    run_ret,        \* the exit code of main(), -1 until it returns
    \* ---- the steps of _run_job over the calls of one run (SpecJob)
    job_plan,       \* the _run_job calls of the run, in order: [job, index]
    job_flags,      \* what the jobs declare: snaps, packages, run_before, run, run_after
    job_output,     \* whether --output-directory was given
    job_host,       \* the output directory: [job, index, fresh, complete]
    job_k,          \* index in job_plan of the call being made
    job_pc,         \* position in _run_job
    job_steps,      \* steps executed, in order: [call, step, ok, seen]
    job_exc,        \* the exception that ended the run, NoExc if none
    \* ---- the properties file of a job (SpecProps)
    pr_license,     \* config.license: NoLicense or [spdx, path]
    pr_static,      \* output.properties of the configuration: key -> value
    pr_properties,  \* job.output.properties as the run has it by now
    pr_dynamic,     \* the entries of the dynamic properties file, in file order
    pr_pc,          \* "start", then "written" or "raised"
    pr_written,     \* the properties written: key -> value, Absent for no key
    \* ---- one call of _resolve_runtime_value (SpecResolve)
    rs_job,         \* the fields of the job: run_before, run, run_after, plugin
    rs_hook,        \* the call: [hook_name, job_property]
    rs_rv,          \* what the hook call returns: the contributors' results
    rs_pc,          \* "call", then "returned"
    rs_value,       \* the value returned
    \* ---- the environment of the commands of one job (SpecEnvMerge)
    em_rv,          \* what lpcraft_set_environment returns: a list of dicts
    em_configuration, \* job.environment: NoDict, or a dict
    em_cli,         \* --set-env: the entries given, strings as characters
    em_commands,    \* the commands of the job that are not empty
    em_pc,          \* "build", "run", then "done" or "raised"
    em_environment, \* the dict built
    em_runs,        \* the commands run: [command, env]
    \* ---- the copy-out of one job (SpecCopyOut)
    co_fs,          \* the instance: [files, link], see FileSystems
    co_paths,       \* output.paths: [given, list], patterns as components
    co_pc,          \* "check", "match", "pull", then "done" or "raised"
    co_resolved,    \* sorted(resolved_paths)
    co_i,           \* index in co_resolved of the path the loop is at
    co_pulled,      \* the pull_file calls that succeeded: [source, destination]
    co_exc,         \* the exception that ended the copy-out, NoExc if none
    \* ---- the expansion and validation of one raw job entry (SpecMatrix)
    mx_values,      \* the raw entry of the job: a dict, see RawJobs
    mx_pc,          \* "expand", "validate", then "accepted" or "rejected"
    mx_expanded,    \* the list _expand_job_values returned
    \* ---- the copy-in of a dependent job after a copy-out (SpecRoundTrip)
    rt_pc,          \* "out", "in", then "done" or "raised"
    rt_properties,  \* the properties file of the producing job on the host
    rt_input,       \* the input of the dependent job and what it meets
    rt_instance,    \* the files under the build tree of the dependent job
    rt_pushed,      \* the properties file pushed, if one was
    rt_exc,         \* the exception _copy_input_paths raised
    \* ---- the before, run and after commands of a job with its plugin (SpecHooks)
    hk_job,         \* the job: its fragments and its plugin
    hk_hook,        \* the call _run_job makes, see HookCalls
    hk_pc,          \* "call" then "returned"
    hk_value        \* the command _resolve_runtime_value returned

nameVars == <<nm_project, nm_inode, issued>>
cleanVars == <<cl_pc, cl_project, cl_inode, cl_given, cl_installed, cl_listing, cl_lxd,
               cl_instances, cl_i, cl_deleted, cl_calls, cl_result>>
envVars == <<env_pc, env_project, env_series, env_instance, env_calls,
             env_yielded, env_exc>>
runVars == <<run_cmd, run_clean, run_pipeline, run_jobs, run_one_job,
             run_one_index, run_pc, run_si, run_ji, run_vi, run_job,
             run_stage_failed, run_exc, run_errors, run_attempts, run_calls,
             run_launched, run_cleaned, run_lxd, run_package_repositories,
             run_ret>>
jobVars == <<job_plan, job_flags, job_output, job_host, job_k, job_pc,
             job_steps, job_exc>>
propVars ==
    <<pr_license, pr_static, pr_properties, pr_dynamic, pr_pc, pr_written>>
resolveVars == <<rs_job, rs_hook, rs_rv, rs_pc, rs_value>>
envMergeVars == <<em_rv, em_configuration, em_cli, em_commands, em_pc,
    em_environment, em_runs>>
copyOutVars == <<co_fs, co_paths, co_pc, co_resolved, co_i, co_pulled,
    co_exc>>
matrixVars == <<mx_values, mx_pc, mx_expanded>>
roundTripVars == <<rt_pc, rt_properties, rt_input, rt_instance, rt_pushed,
    rt_exc>>
hooksVars == <<hk_job, hk_hook, hk_pc, hk_value>>
vars == <<nameVars, cleanVars, envVars, runVars, jobVars, propVars,
    resolveVars, envMergeVars, copyOutVars, matrixVars, roundTripVars,
    hooksVars>>

\* what the actions of one component leave alone
otherThanName == <<cleanVars, envVars, runVars, jobVars, propVars,
    resolveVars, envMergeVars, copyOutVars, matrixVars, roundTripVars,
    hooksVars>>
otherThanClean == <<nameVars, envVars, runVars, jobVars, propVars,
    resolveVars, envMergeVars, copyOutVars, matrixVars, roundTripVars,
    hooksVars>>
otherThanEnv == <<nameVars, cleanVars, runVars, jobVars, propVars,
    resolveVars, envMergeVars, copyOutVars, matrixVars, roundTripVars,
    hooksVars>>
otherThanRun == <<nameVars, cleanVars, envVars, jobVars, propVars,
    resolveVars, envMergeVars, copyOutVars, matrixVars, roundTripVars,
    hooksVars>>
otherThanJob == <<nameVars, cleanVars, envVars, runVars, propVars,
    resolveVars, envMergeVars, copyOutVars, matrixVars, roundTripVars,
    hooksVars>>
otherThanProps == <<nameVars, cleanVars, envVars, runVars, jobVars,
    resolveVars, envMergeVars, copyOutVars, matrixVars, roundTripVars,
    hooksVars>>
otherThanResolve == <<nameVars, cleanVars, envVars, runVars, jobVars,
    propVars, envMergeVars, copyOutVars, matrixVars, roundTripVars,
    hooksVars>>
otherThanEnvMerge == <<nameVars, cleanVars, envVars, runVars, jobVars,
    propVars, resolveVars, copyOutVars, matrixVars, roundTripVars, hooksVars>>
otherThanCopyOut == <<nameVars, cleanVars, envVars, runVars, jobVars,
    propVars, resolveVars, envMergeVars, matrixVars, roundTripVars,
    hooksVars>>
otherThanMatrix == <<nameVars, cleanVars, envVars, runVars, jobVars,
    propVars, resolveVars, envMergeVars, copyOutVars, roundTripVars,
    hooksVars>>
otherThanRoundTrip == <<nameVars, cleanVars, envVars, runVars, jobVars,
    propVars, resolveVars, envMergeVars, copyOutVars, matrixVars, hooksVars>>
otherThanHooks == <<nameVars, cleanVars, envVars, runVars, jobVars, propVars,
    resolveVars, envMergeVars, copyOutVars, matrixVars, roundTripVars>>

-----------------------------------------------------------------------------
(* Bounds of the model *)

\* longest series / architecture identifier drawn in SpecName
MaxIdLen == 3
\* number of get_instance_name calls recorded in one behaviour of SpecName
MaxCalls == 2
\* longest instances argument passed to clean_project_environments
MaxGiven == 2
\* most instances existing in the provider's namespace
MaxListed == 2
\* most job entries in a pipeline, over all its stages
MaxPipelineJobs == 3

-----------------------------------------------------------------------------
(* Characters and strings *)

LowerCase == {"a","b","c","d","e","f","g","h","i","j","k","l","m",
              "n","o","p","q","r","s","t","u","v","w","x","y","z"}
UpperCase == {"A","B","C","D","E","F","G","H","I","J","K","L","M",
              "N","O","P","Q","R","S","T","U","V","W","X","Y","Z"}
Digits == {"0","1","2","3","4","5","6","7","8","9"}

Min(a, b) == IF a < b THEN a ELSE b

Range(q) == {q[i] : i \in 1..Len(q)}

\* the string made of n copies of the character c
Rep(c, n) == [i \in 1..n |-> c]

DigitChar(d) ==
    CASE d = 0 -> "0" [] d = 1 -> "1" [] d = 2 -> "2" [] d = 3 -> "3"
      [] d = 4 -> "4" [] d = 5 -> "5" [] d = 6 -> "6" [] d = 7 -> "7"
      [] d = 8 -> "8" [] d = 9 -> "9"

\* str(n) for a natural number, as the f-string and str() render an inode
RECURSIVE IntToStr(_)
IntToStr(n) ==
    IF n < 10 THEN <<DigitChar(n)>>
    ELSE Append(IntToStr(n \div 10), DigitChar(n % 10))

-----------------------------------------------------------------------------
(* Instance names: providers/_base.py *)

\* name[:63]
MaxInstanceNameLen == 63

\* the character class [A-Za-z0-9-] of sanitize_lxd_instance_name
InstanceNameChars == LowerCase \cup UpperCase \cup Digits \cup {"-"}

\* re.sub(r"[^A-Za-z0-9-]", "-", name), then name[:63]
sanitize_lxd_instance_name(name) ==
    LET substituted == [i \in 1..Len(name) |->
                           IF name[i] \in InstanceNameChars THEN name[i] ELSE "-"]
    IN SubSeq(substituted, 1, Min(Len(substituted), MaxInstanceNameLen))

\* the literal "lpci-" the f-string of get_instance_name starts with
InstanceNamePrefix == <<"l","p","c","i","-">>

\* f"lpci-{project_name}-{st_ino}-{series}-{architecture}", sanitized
get_instance_name(project_name, inode, series, architecture) ==
    sanitize_lxd_instance_name(
        InstanceNamePrefix \o project_name \o <<"-">> \o IntToStr(inode)
            \o <<"-">> \o series \o <<"-">> \o architecture)

-----------------------------------------------------------------------------
(* Identifiers of the configuration: config.py *)

\* _Identifier.regex: ^[a-z0-9][a-z0-9\+\._\-]+$
\* ($ also matches before one trailing line break)
IsIdentifier(s) ==
    \E m \in {Len(s)} \cup (IF Len(s) > 0 /\ s[Len(s)] = "\n"
                              THEN {Len(s) - 1} ELSE {}) :
        /\ m >= 2
        /\ s[1] \in LowerCase \cup Digits
        /\ \A i \in 2..m : s[i] \in LowerCase \cup Digits \cup {"+", ".", "_", "-"}

\* characters the identifiers of SpecName are built from
IdAlphabet == {"a", ".", "-"}

SeqsUpTo(S, n) == UNION {[1..k -> S] : k \in 0..n}

\* the series and architecture identifiers drawn in SpecName
Identifiers == {s \in SeqsUpTo(IdAlphabet, MaxIdLen) : IsIdentifier(s)}

-----------------------------------------------------------------------------
(* The regular expression of clean_project_environments: providers/_lxd.py *)

\* the literal "lpcraft-" the pattern starts with
CleanRegexPrefix == <<"l","p","c","r","a","f","t","-">>

\* a pattern of just .+-.+, whatever the project and the inode
clean_regex_match_AnyProject(project_name, inode, instance) ==
    \E i \in 2..(Len(instance) - 1) : instance[i] = "-"

\* re.match(rf"^lpcraft-{re.escape(project_name)}-{re.escape(inode)}-.+-.+$",
\*          instance), project_name already sanitized.
\* "." matches any character but a line break; "$" matches at the end or
\* before one trailing line break.
clean_regex_match(project_name, inode, instance) ==
    LET head == CleanRegexPrefix \o project_name \o <<"-">> \o inode
        n == Len(head)
        len == Len(instance)
    IN /\ len >= n
       /\ SubSeq(instance, 1, n) = head
       /\ \E m \in {len} \cup (IF len > n /\ instance[len] = "\n"
                                 THEN {len - 1} ELSE {}) :
            /\ m >= n + 4
            /\ instance[n + 1] = "-"
            /\ \E k \in (n + 3)..(m - 1) : instance[k] = "-"
            /\ \A i \in (n + 2)..m : instance[i] # "\n"

-----------------------------------------------------------------------------
(* Inputs *)

ProjectShort == <<"p">>
ProjectDotted == <<"m","y","_","p","r","o","j">>
\* a directory name long enough for the instance name to exceed 63 characters
ProjectLong == Rep("x", 60)

ProjectNames == {ProjectShort, ProjectDotted, ProjectLong}
Inodes == {7, 12345}

SeriesXenial == <<"x","e","n","i","a","l">>
SeriesBionic == <<"b","i","o","n","i","c">>
SeriesFocal == <<"f","o","c","a","l">>
SeriesJammy == <<"j","a","m","m","y">>
\* the keys of SERIES_TO_BUILDD_IMAGE_ALIAS
BuilddSeries == {SeriesXenial, SeriesBionic, SeriesFocal}
ArchAmd64 == <<"a","m","d","6","4">>
ArchArm64 == <<"a","r","m","6","4">>

\* instance names that may exist in the namespace or be passed as instances
NameLpcraftFocal == <<"l","p","c","r","a","f","t","-","p","-","7","-","f","o","c","a","l","-","a","m","d","6","4">>
NameLpcraftNoSeries == <<"l","p","c","r","a","f","t","-","p","-","7","-","-">>
NameLpciFocal == get_instance_name(ProjectShort, 7, SeriesFocal, ArchAmd64)
NameOtherProject == <<"l","p","c","r","a","f","t","-","q","-","7","-","f","o","c","a","l","-","a","m","d","6","4">>
NameForeign == <<"d","o","-","n","o","t","-","d","e","l","e","t","e","-","m","e">>
\* the name of an instance of another project
NameLpciOtherPair == get_instance_name(ProjectDotted, 12345, SeriesFocal, ArchAmd64)
CandidateNames == {NameLpcraftFocal, NameLpcraftNoSeries, NameLpciFocal,
                   NameLpciOtherPair, NameOtherProject, NameForeign}

\* the sequences over S of length at most n
\* without repetition: the names list_names can report
DistinctSeqsUpTo(S, n) ==
    {q \in SeqsUpTo(S, n) : \A i, j \in 1..Len(q) : i # j => q[i] # q[j]}

-----------------------------------------------------------------------------
(* Parked values: a specification leaves the other components' variables    *)
(* at these values.                                                         *)

NameIdle == nm_project = <<>> /\ nm_inode = 0 /\ issued = {}

CleanIdle ==
    /\ cl_pc = "idle" /\ cl_project = <<>> /\ cl_inode = 0 /\ cl_given = <<>>
    /\ cl_installed = TRUE /\ cl_listing = <<>> /\ cl_lxd = {}
    /\ cl_instances = <<>> /\ cl_i = 0
    /\ cl_deleted = <<>> /\ cl_calls = <<>> /\ cl_result = [kind |-> "none"]

EnvIdle ==
    /\ env_pc = "idle" /\ env_project = <<>> /\ env_series = <<>>
    /\ env_instance = "none" /\ env_calls = <<>> /\ env_yielded = FALSE
    /\ env_exc = "none"

NoExc == [type |-> "none", msg |-> <<>>, retcode |-> 0]

\* a local variable that has not been assigned yet
Unbound == [series |-> <<>>, architectures |-> {}, package_repositories |-> <<>>]

RunIdle ==
    /\ run_cmd = "idle" /\ run_clean = FALSE /\ run_pipeline = <<>>
    /\ run_jobs = <<>> /\ run_one_job = "" /\ run_one_index = 0
    /\ run_pc = "idle" /\ run_si = 0 /\ run_ji = 0 /\ run_vi = 0
    /\ run_job = Unbound /\ run_stage_failed = FALSE /\ run_exc = NoExc
    /\ run_errors = <<>> /\ run_attempts = <<>> /\ run_calls = <<>>
    /\ run_launched = <<>> /\ run_cleaned = <<>> /\ run_lxd = {}
    /\ run_package_repositories = <<>>
    /\ run_ret = -1

JobIdle ==
    /\ job_plan = <<>> /\ job_flags = <<>> /\ job_output = FALSE
    /\ job_host = {} /\ job_k = 0 /\ job_pc = "idle" /\ job_steps = <<>>
    /\ job_exc = NoExc

PropsIdle ==
    /\ pr_license = <<>> /\ pr_static = <<>> /\ pr_dynamic = <<>>
    /\ pr_pc = "idle" /\ pr_written = <<>> /\ pr_properties = <<>>

ResolveIdle ==
    /\ rs_job = <<>> /\ rs_hook = <<>> /\ rs_rv = <<>>
    /\ rs_pc = "idle" /\ rs_value = <<>>

EnvMergeIdle ==
    /\ em_rv = <<>> /\ em_configuration = <<>> /\ em_cli = <<>>
    /\ em_commands = <<>> /\ em_pc = "idle" /\ em_environment = <<>>
    /\ em_runs = <<>>

CopyOutIdle ==
    /\ co_fs = <<>> /\ co_paths = <<>> /\ co_pc = "idle"
    /\ co_resolved = <<>> /\ co_i = 0 /\ co_pulled = <<>> /\ co_exc = NoExc

MatrixIdle ==
    /\ mx_values = <<>> /\ mx_pc = "idle" /\ mx_expanded = <<>>

RoundTripIdle ==
    /\ rt_pc = "idle" /\ rt_properties = <<>> /\ rt_input = <<>>
    /\ rt_instance = {} /\ rt_pushed = <<>> /\ rt_exc = NoExc

HooksIdle ==
    /\ hk_job = <<>> /\ hk_hook = <<>> /\ hk_pc = "idle" /\ hk_value = <<>>

\* the components parked by the specifications of the first four
LaterIdle == JobIdle /\ PropsIdle
    /\ ResolveIdle
    /\ EnvMergeIdle
    /\ CopyOutIdle
    /\ MatrixIdle
    /\ RoundTripIdle
    /\ HooksIdle

-----------------------------------------------------------------------------
(* SpecName: calls of Provider.get_instance_name on one project *)

NameInit ==
    /\ nm_project \in ProjectNames
    /\ nm_inode \in Inodes
    /\ issued = {}

GetInstanceNameCall ==
    /\ Cardinality(issued) < MaxCalls
    /\ \E series \in Identifiers, architecture \in Identifiers :
          issued' = issued \cup
              {[series |-> series, architecture |-> architecture,
                name |-> get_instance_name(nm_project, nm_inode,
                                           series, architecture)]}
    /\ UNCHANGED <<nm_project, nm_inode>>
    /\ UNCHANGED otherThanName

InitName == NameInit /\ CleanIdle /\ EnvIdle /\ RunIdle /\ LaterIdle
NextName == GetInstanceNameCall
SpecName == InitName /\ [][NextName]_vars

-----------------------------------------------------------------------------
(* SpecClean: LXDProvider.clean_project_environments *)

CleanInit ==
    /\ cl_pc = "start"
    /\ cl_project \in {ProjectShort, ProjectDotted}
    /\ cl_inode \in Inodes
    /\ cl_given \in SeqsUpTo(CandidateNames, MaxGiven)
    /\ cl_installed \in BOOLEAN
    /\ cl_listing \in DistinctSeqsUpTo(CandidateNames, MaxListed)
    /\ cl_lxd = Range(cl_listing)
    /\ cl_instances = <<>> /\ cl_i = 0
    /\ cl_deleted = <<>> /\ cl_calls = <<>> /\ cl_result = [kind |-> "none"]

\* lines 131-146: the availability check, the inode, the candidate list
\* (list_names may raise LXDError, re-raised as CommandError)
CleanBegin ==
    /\ cl_pc = "start"
    /\ IF ~cl_installed
         THEN /\ cl_pc' = "done"
              /\ cl_result' = [kind |-> "return", value |-> <<>>]
              /\ UNCHANGED <<cl_instances, cl_i>>
         ELSE IF cl_given # <<>>
         THEN /\ cl_instances' = cl_given
              /\ cl_i' = 1
              /\ cl_pc' = "loop"
              /\ UNCHANGED cl_result
         ELSE \/ /\ cl_instances' = cl_listing
                 /\ cl_i' = 1
                 /\ cl_pc' = "loop"
                 /\ UNCHANGED cl_result
              \/ /\ cl_pc' = "done"
                 /\ cl_result' = [kind |-> "CommandError"]
                 /\ UNCHANGED <<cl_instances, cl_i>>
    /\ UNCHANGED <<cl_project, cl_inode, cl_given, cl_installed, cl_listing,
                   cl_lxd, cl_deleted, cl_calls>>
    /\ UNCHANGED otherThanClean

\* lines 147-165: one iteration of "for instance in instances"
\* (lxc.delete may raise LXDError, re-raised as CommandError)
CleanIterate ==
    /\ cl_pc = "loop"
    /\ cl_i <= Len(cl_instances)
    /\ LET instance == cl_instances[cl_i]
       IN IF clean_regex_match(sanitize_lxd_instance_name(cl_project),
                               IntToStr(cl_inode), instance)
            THEN /\ cl_calls' = Append(cl_calls, instance)
                 /\ \/ /\ cl_lxd' = cl_lxd \ {instance}
                       /\ cl_deleted' = Append(cl_deleted, instance)
                       /\ cl_i' = cl_i + 1
                       /\ UNCHANGED <<cl_pc, cl_result>>
                    \/ /\ cl_pc' = "done"
                       /\ cl_result' = [kind |-> "CommandError"]
                       /\ UNCHANGED <<cl_lxd, cl_deleted, cl_i>>
            ELSE /\ cl_i' = cl_i + 1
                 /\ UNCHANGED <<cl_pc, cl_result, cl_lxd, cl_deleted, cl_calls>>
    /\ UNCHANGED <<cl_project, cl_inode, cl_given, cl_installed, cl_listing,
                   cl_instances>>
    /\ UNCHANGED otherThanClean

\* line 167: return deleted
CleanReturn ==
    /\ cl_pc = "loop"
    /\ cl_i > Len(cl_instances)
    /\ cl_pc' = "done"
    /\ cl_result' = [kind |-> "return", value |-> cl_deleted]
    /\ UNCHANGED <<cl_project, cl_inode, cl_given, cl_installed, cl_listing,
                   cl_lxd, cl_instances, cl_i, cl_deleted, cl_calls>>
    /\ UNCHANGED otherThanClean

InitClean == CleanInit /\ NameIdle /\ EnvIdle /\ RunIdle /\ LaterIdle
NextClean == CleanBegin \/ CleanIterate \/ CleanReturn
SpecClean == InitClean /\ [][NextClean]_vars

-----------------------------------------------------------------------------
(* SpecEnv: LXDProvider.launched_environment, one use of the context        *)
(* manager.  Every backend call may fail; the body ends normally, with an  *)
(* error, or with an interrupt.                                            *)

EnvInit ==
    /\ env_pc = "start"
    /\ env_project \in {ProjectShort, ProjectDotted}
    /\ env_series \in BuilddSeries \cup {SeriesJammy}
    /\ env_instance = "none"
    /\ env_calls = <<>>
    /\ env_yielded = FALSE
    /\ env_exc = "none"

Called(op, ok) == Append(env_calls, [op |-> op, ok |-> ok])

\* lines 258-297: the image alias (KeyError for a series without one), the
\* remote image (LXDError re-raised as CommandError), project and profile
EnvStart ==
    /\ env_pc = "start"
    /\ IF env_series \notin BuilddSeries
         THEN env_pc' = "exit" /\ env_exc' = "KeyError"
         ELSE \/ env_pc' = "launch" /\ UNCHANGED env_exc
              \/ env_pc' = "exit" /\ env_exc' = "CommandError"
    /\ UNCHANGED <<env_project, env_series, env_instance, env_calls, env_yielded>>
    /\ UNCHANGED otherThanEnv

\* lines 299-314: self.lxd_launcher(...)
EnvLaunch ==
    /\ env_pc = "launch"
    /\ \/ env_pc' = "mount" /\ env_instance' = "running" /\ UNCHANGED env_exc
       \/ env_pc' = "exit" /\ env_exc' = "CommandError" /\ UNCHANGED env_instance
    /\ UNCHANGED <<env_project, env_series, env_calls, env_yielded>>
    /\ UNCHANGED otherThanEnv

\* line 321: instance.mount(...), inside the outer try only
EnvMount ==
    /\ env_pc = "mount"
    /\ \/ env_pc' = "stage_rm" /\ env_calls' = Called("mount", TRUE)
          /\ UNCHANGED env_exc
       \/ env_pc' = "td_rm" /\ env_calls' = Called("mount", FALSE)
          /\ env_exc' = "LXDError"
    /\ UNCHANGED <<env_project, env_series, env_instance, env_yielded>>
    /\ UNCHANGED otherThanEnv

StageNext(pc) ==
    CASE pc = "stage_rm" -> "stage_mkdir"
      [] pc = "stage_mkdir" -> "stage_cp"
      [] pc = "stage_cp" -> "unmount_tmp"

StageOp(pc) ==
    CASE pc = "stage_rm" -> "rm"
      [] pc = "stage_mkdir" -> "mkdir"
      [] pc = "stage_cp" -> "cp"

\* lines 322-347: rm -rf, mkdir -p, cp -a, each with check=True;
\* CalledProcessError is re-raised as CommandError
EnvStage ==
    /\ env_pc \in {"stage_rm", "stage_mkdir", "stage_cp"}
    /\ \/ env_pc' = StageNext(env_pc) /\ env_calls' = Called(StageOp(env_pc), TRUE)
          /\ UNCHANGED env_exc
       \/ env_pc' = "unmount_tmp" /\ env_calls' = Called(StageOp(env_pc), FALSE)
          /\ env_exc' = "CommandError"
    /\ UNCHANGED <<env_project, env_series, env_instance, env_yielded>>
    /\ UNCHANGED otherThanEnv

\* lines 348-349: finally: instance.unmount(target=tmp_project_path)
EnvUnmountTmp ==
    /\ env_pc = "unmount_tmp"
    /\ \/ /\ env_calls' = Called("unmount", TRUE)
          /\ env_pc' = IF env_exc = "none" THEN "body" ELSE "td_rm"
          /\ UNCHANGED env_exc
       \/ /\ env_calls' = Called("unmount", FALSE)
          /\ env_pc' = "td_rm"
          /\ env_exc' = "LXDError"
    /\ UNCHANGED <<env_project, env_series, env_instance, env_yielded>>
    /\ UNCHANGED otherThanEnv

\* how the body of the with statement may end
BodyOutcomes == {"none", "BodyError", "KeyboardInterrupt"}

\* the yield placed outside the try, so that an exception raised by the
\* body leaves the method at once
EnvBody_YieldOutsideTry ==
    /\ env_pc = "body"
    /\ env_yielded' = TRUE
    /\ env_calls' = Called("yield", TRUE)
    /\ env_exc' \in BodyOutcomes
    /\ env_pc' = IF env_exc' = "none" THEN "td_rm" ELSE "exit"
    /\ UNCHANGED <<env_project, env_series, env_instance>>
    /\ UNCHANGED otherThanEnv

\* line 351: yield instance; whatever the body raises is raised at the
\* yield, inside the outer try
EnvBody ==
    /\ env_pc = "body"
    /\ env_yielded' = TRUE
    /\ env_calls' = Called("yield", TRUE)
    /\ env_exc' \in BodyOutcomes
    /\ env_pc' = "td_rm"
    /\ UNCHANGED <<env_project, env_series, env_instance>>
    /\ UNCHANGED otherThanEnv

\* lines 352-359: finally: rm -rf with check=True; CalledProcessError is not
\* an LXDError and leaves the method as it is
EnvTeardownRm ==
    /\ env_pc = "td_rm"
    /\ \/ env_pc' = "td_unmount_all" /\ env_calls' = Called("rm", TRUE)
          /\ UNCHANGED env_exc
       \/ env_pc' = "exit" /\ env_calls' = Called("rm", FALSE)
          /\ env_exc' = "CalledProcessError"
    /\ UNCHANGED <<env_project, env_series, env_instance, env_yielded>>
    /\ UNCHANGED otherThanEnv

\* line 360: instance.unmount_all(); LXDError is re-raised as CommandError
EnvUnmountAll ==
    /\ env_pc = "td_unmount_all"
    /\ \/ env_pc' = "td_stop" /\ env_calls' = Called("unmount_all", TRUE)
          /\ UNCHANGED env_exc
       \/ env_pc' = "exit" /\ env_calls' = Called("unmount_all", FALSE)
          /\ env_exc' = "CommandError"
    /\ UNCHANGED <<env_project, env_series, env_instance, env_yielded>>
    /\ UNCHANGED otherThanEnv

\* line 361: instance.stop(); LXDError is re-raised as CommandError;
\* otherwise the exception in flight, if any, goes on to the caller
EnvStop ==
    /\ env_pc = "td_stop"
    /\ \/ env_calls' = Called("stop", TRUE) /\ env_instance' = "stopped"
          /\ UNCHANGED env_exc
       \/ env_calls' = Called("stop", FALSE) /\ env_exc' = "CommandError"
          /\ UNCHANGED env_instance
    /\ env_pc' = "exit"
    /\ UNCHANGED <<env_project, env_series, env_yielded>>
    /\ UNCHANGED otherThanEnv

InitEnv == EnvInit /\ NameIdle /\ CleanIdle /\ RunIdle /\ LaterIdle
NextEnv ==
    \/ EnvStart \/ EnvLaunch \/ EnvMount \/ EnvStage \/ EnvUnmountTmp
    \/ EnvBody \/ EnvTeardownRm \/ EnvUnmountAll \/ EnvStop
SpecEnv == InitEnv /\ [][NextEnv]_vars

-----------------------------------------------------------------------------
(* SpecRun: the run and run-one commands under main()                       *)

\* Path.cwd(): its name and inode
RunProject == ProjectShort
RunInode == 7
\* get_host_architecture()
HostArchitecture == ArchAmd64

JobNames == {"a", "b"}

\* a Job: package_repositories holds the lines its repositories render to
\* (sources_list_lines)
Variant(series, architectures, package_repositories) ==
    [series |-> series, architectures |-> architectures,
     package_repositories |-> package_repositories]

VariantFocal ==
    Variant(SeriesFocal, {ArchAmd64}, <<"deb https://repo-focal focal main">>)
VariantBionic == Variant(SeriesBionic, {ArchAmd64}, <<>>)
VariantXenialArm ==
    Variant(SeriesXenial, {ArchArm64}, <<"deb https://repo-xenial xenial main">>)

\* --package-repository, --replace-package-repositories and the content of
\* /etc/apt/sources.list in a new instance; a text is a sequence of lines
\* and line breaks
CliPackageRepositories == <<"repo via cli">>
ReplacePackageRepositories == <<>>
ExistingSourcesList == <<"deb http://archive.ubuntu.com/ubuntu/ focal main">>

\* the variant lists a job name maps to in the configurations drawn:
\* not defined, one variant, a matrix of two, a variant for another
\* architecture alone or first in a matrix
JobDefinitions == {<<>>, <<VariantFocal>>, <<VariantBionic>>,
                   <<VariantFocal, VariantBionic>>,
                   <<VariantXenialArm>>, <<VariantXenialArm, VariantFocal>>}

\* the indexes run-one is called with
JobIndexes == -3..2

\* exit statuses of the commands of a job
RetCodes == {0, 2}

\* the stages of at most n jobs
Stages(n) == SeqsUpTo(JobNames, n) \ {<<>>}

\* the pipelines of at most n job entries over all their stages
RECURSIVE PipelinesUpTo(_)
PipelinesUpTo(n) ==
    {<<>>} \cup UNION {{<<stage>> \o rest : rest \in PipelinesUpTo(n - Len(stage))} :
                        stage \in Stages(n)}

Pipelines == PipelinesUpTo(MaxPipelineJobs)

JobMaps == [JobNames -> JobDefinitions]

\* errors, by the message they are built with
NoJobDefinition(job_name) ==
    [type |-> "CommandError", msg |-> <<"No job definition for", job_name>>,
     retcode |-> 1]
NoJobIndex(index, job_name) ==
    [type |-> "CommandError",
     msg |-> <<"No job definition with index", index, job_name>>,
     retcode |-> 1]
JobFailed(job_name, series, returncode) ==
    [type |-> "CommandError",
     msg |-> <<"Job failed with exit status", job_name, series, returncode>>,
     retcode |-> returncode]
LaunchFailed ==
    [type |-> "CommandError", msg |-> <<"launch failed">>, retcode |-> 1]
SomeJobsFailed(stage) ==
    [type |-> "CommandError", msg |-> <<"Some jobs failed; stopping.", stage>>,
     retcode |-> 1]
DeleteFailed(name) ==
    [type |-> "CommandError", msg |-> <<"delete failed", name>>, retcode |-> 1]
UnboundLocalError(name) ==
    [type |-> "UnboundLocalError", msg |-> <<name>>, retcode |-> 0]
IndexError ==
    [type |-> "IndexError", msg |-> <<"list index out of range">>, retcode |-> 0]
InternalError(e) ==
    [type |-> "CraftError", msg |-> <<"internal error", e.type>>, retcode |-> 1]

RunInit ==
    /\ run_cmd \in {"run", "run-one"}
    /\ run_clean \in BOOLEAN
    /\ run_jobs \in JobMaps
    /\ IF run_cmd = "run"
         THEN /\ run_pipeline \in Pipelines
              /\ run_one_job = "" /\ run_one_index = 0
              /\ run_pc = "stage"
         ELSE /\ run_one_job \in JobNames
              /\ run_one_index \in JobIndexes
              /\ run_pipeline = << <<run_one_job>> >>
              /\ run_pc = "one_select"
    /\ run_si = 1 /\ run_ji = 0 /\ run_vi = 0
    /\ run_job = Unbound /\ run_stage_failed = FALSE /\ run_exc = NoExc
    /\ run_errors = <<>> /\ run_attempts = <<>> /\ run_calls = <<>>
    /\ run_launched = <<>> /\ run_cleaned = <<>> /\ run_lxd = {}
    /\ run_package_repositories = CliPackageRepositories
    /\ run_ret = -1

\* _get_job_instance_name(provider, job)
job_instance_name(job) ==
    get_instance_name(RunProject, RunInode, job.series, HostArchitecture)

\* what clean_project_environments deletes when given a non-empty instances
\* list and the backend does not fail: the names matching the pattern
project_instances(project_name, inode, instances) ==
    SelectSeq(instances,
              LAMBDA n : clean_regex_match(sanitize_lxd_instance_name(project_name),
                                           IntToStr(inode), n))

\* "\n".join(lines)
RECURSIVE Join(_)
Join(lines) ==
    IF Len(lines) <= 1 THEN lines
    ELSE <<Head(lines), "\n">> \o Join(Tail(lines))

\* the non-empty lines of a text
Lines(text) == SelectSeq(text, LAMBDA t : t # "\n")

\* _install_apt_packages, lines 298-329: the content of /etc/apt/sources.list
\* once the packages of a variant are installed (no secrets given)
sources_list(existing, replace_package_repositories, package_repositories) ==
    LET base == IF replace_package_repositories # <<>>
                  THEN Join(replace_package_repositories) \o <<"\n">>
                  ELSE existing
    IN IF package_repositories # <<>>
         THEN base \o <<"\n">> \o Join(package_repositories) \o <<"\n">>
         ELSE base

\* _run_job without lines 417-420: every variant is launched, whatever its
\* architectures
run_job_call_NoArchitectureCheck(stage, pos, job_name, job_index, job, package_repositories) ==
    /\ run_calls' = Append(run_calls,
            [stage |-> stage, pos |-> pos, job |-> job_name,
             index |-> job_index,
             package_repositories |-> package_repositories])
    /\ \E returncode \in RetCodes :
          /\ run_launched' = Append(run_launched,
                [stage |-> stage, pos |-> pos, job |-> job_name,
                 index |-> job_index, name |-> job_instance_name(job),
                 sources |-> sources_list(ExistingSourcesList,
                                 ReplacePackageRepositories,
                                 package_repositories),
                 output |-> returncode = 0])
          /\ run_lxd' = run_lxd \cup {job_instance_name(job)}
          /\ run_exc' = IF returncode = 0 THEN NoExc
                        ELSE JobFailed(job_name, job.series, returncode)

\* _run_job(config, job_name, job_index, ...) for the variant job: nothing
\* for a variant not for the host architecture; otherwise the environment
\* is launched (CommandError if that fails) and the commands run, a
\* non-zero exit status raising CommandError with that status as retcode.
\* Every job installs packages, so sources.list is written first, and
\* declares output, written to the output directory once the commands have
\* succeeded.  stage and pos say where in the pipeline the call is made from.
\* Sets run_calls', run_launched', run_lxd' and run_exc'.
run_job_call(stage, pos, job_name, job_index, job, package_repositories) ==
    /\ run_calls' = Append(run_calls,
            [stage |-> stage, pos |-> pos, job |-> job_name,
             index |-> job_index,
             package_repositories |-> package_repositories])
    /\ IF HostArchitecture \notin job.architectures
         THEN UNCHANGED <<run_launched, run_lxd, run_exc>>
         ELSE \/ /\ run_exc' = LaunchFailed
                 /\ UNCHANGED <<run_launched, run_lxd>>
              \/ \E returncode \in RetCodes :
                    /\ run_launched' = Append(run_launched,
                          [stage |-> stage, pos |-> pos, job |-> job_name,
                           index |-> job_index, name |-> job_instance_name(job),
                           sources |-> sources_list(ExistingSourcesList,
                                           ReplacePackageRepositories,
                                           package_repositories),
                           output |-> returncode = 0])
                    /\ run_lxd' = run_lxd \cup {job_instance_name(job)}
                    /\ run_exc' = IF returncode = 0 THEN NoExc
                                  ELSE JobFailed(job_name, job.series, returncode)

\* the clean-up of the finally clauses: clean_project_environments with the
\* instance name of the local variable job; reading job while it is unbound
\* raises UnboundLocalError, and the delete of a matching name may fail with
\* CommandError; either replaces the exception in flight.
\* Sets run_cleaned', run_lxd' and run_exc' from exc.
clean_in_finally(exc) ==
    IF ~run_clean
      THEN run_exc' = exc /\ UNCHANGED <<run_cleaned, run_lxd>>
      ELSE IF run_job = Unbound
      THEN run_exc' = UnboundLocalError("job") /\ UNCHANGED <<run_cleaned, run_lxd>>
      ELSE LET instances == <<job_instance_name(run_job)>>
               matching == project_instances(RunProject, RunInode, instances)
           IN /\ run_cleaned' = Append(run_cleaned, instances)
              /\ \/ /\ run_lxd' = run_lxd \ Range(matching)
                    /\ run_exc' = exc
                 \/ /\ matching # <<>>
                    /\ run_exc' = DeleteFailed(matching[1])
                    /\ UNCHANGED run_lxd

CurrentStage == run_pipeline[run_si]
CurrentJobName == CurrentStage[run_ji]

runConfig == <<run_cmd, run_clean, run_pipeline, run_jobs, run_one_job,
               run_one_index>>

\* lines 643-644 and 698: the next stage, or return 0
RunBeginStage ==
    /\ run_pc = "stage"
    /\ IF run_si > Len(run_pipeline)
         THEN run_pc' = "main" /\ UNCHANGED <<run_ji, run_stage_failed>>
         ELSE run_pc' = "job" /\ run_ji' = 1 /\ run_stage_failed' = FALSE
    /\ UNCHANGED <<runConfig, run_package_repositories,
                   run_si, run_vi, run_job, run_exc, run_errors,
                   run_attempts, run_calls, run_launched, run_cleaned, run_lxd,
                   run_ret>>
    /\ UNCHANGED otherThanRun

\* lines 645-651: the next job of the stage; its definition is looked up
RunTryJob ==
    /\ run_pc = "job"
    /\ IF run_ji > Len(CurrentStage)
         THEN /\ run_pc' = "endstage"
              /\ UNCHANGED <<run_vi, run_exc, run_attempts>>
         ELSE /\ run_attempts' = Append(run_attempts,
                      [stage |-> run_si, pos |-> run_ji, job |-> CurrentJobName,
                       exc |-> IF run_jobs[CurrentJobName] = <<>>
                                 THEN NoJobDefinition(CurrentJobName)
                                 ELSE NoExc])
              /\ IF run_jobs[CurrentJobName] = <<>>
                   THEN /\ run_exc' = NoJobDefinition(CurrentJobName)
                        /\ run_pc' = "except"
                        /\ UNCHANGED run_vi
                   ELSE /\ run_vi' = 1
                        /\ run_pc' = "variant"
                        /\ UNCHANGED run_exc
    /\ UNCHANGED <<runConfig, run_package_repositories,
                   run_si, run_ji, run_job, run_stage_failed,
                   run_errors, run_calls, run_launched, run_cleaned, run_lxd,
                   run_ret>>
    /\ UNCHANGED otherThanRun

\* lines 652-674: one iteration of "for job_index, job in enumerate(jobs)"
RunVariant ==
    /\ run_pc = "variant"
    /\ LET jobs == run_jobs[CurrentJobName]
       IN /\ run_job' = jobs[run_vi]
          /\ run_package_repositories' =
                 run_package_repositories \o jobs[run_vi].package_repositories
          /\ run_job_call(run_si, run_ji, CurrentJobName, run_vi - 1,
                          jobs[run_vi], run_package_repositories')
          /\ run_attempts' = [run_attempts EXCEPT
                                 ![Len(run_attempts)].exc = run_exc']
          /\ IF run_exc' # NoExc
               THEN run_pc' = "except" /\ UNCHANGED run_vi
               ELSE IF run_vi < Len(jobs)
               THEN run_pc' = "variant" /\ run_vi' = run_vi + 1
               ELSE run_pc' = "finally" /\ UNCHANGED run_vi
    /\ UNCHANGED <<runConfig, run_si, run_ji, run_stage_failed, run_errors,
                   run_cleaned, run_ret>>
    /\ UNCHANGED otherThanRun

\* the except clause leaving the job loop on a failure in a multi-job stage
\* without flagging the stage
RunExcept_BreaksOutOfStage ==
    /\ run_pc = "except"
    /\ IF Len(CurrentStage) = 1
         THEN UNCHANGED <<run_exc, run_errors, run_ji>>
         ELSE /\ run_errors' = Append(run_errors, run_exc)
              /\ run_exc' = NoExc
              /\ run_ji' = Len(CurrentStage)
    /\ run_pc' = "finally"
    /\ UNCHANGED <<runConfig, run_package_repositories,
                   run_si, run_vi, run_job, run_stage_failed,
                   run_attempts, run_calls, run_launched, run_cleaned, run_lxd,
                   run_ret>>
    /\ UNCHANGED otherThanRun

\* the except clause without the single-job case
RunExcept_AlwaysCollects ==
    /\ run_pc = "except"
    /\ run_errors' = Append(run_errors, run_exc)
    /\ run_stage_failed' = TRUE
    /\ run_exc' = NoExc
    /\ run_pc' = "finally"
    /\ UNCHANGED <<runConfig, run_package_repositories,
                   run_si, run_ji, run_vi, run_job, run_attempts,
                   run_calls, run_launched, run_cleaned, run_lxd, run_ret>>
    /\ UNCHANGED otherThanRun

\* lines 676-683: except CommandError
RunExcept ==
    /\ run_pc = "except"
    /\ IF Len(CurrentStage) = 1
         THEN UNCHANGED <<run_exc, run_errors, run_stage_failed>>
         ELSE /\ run_errors' = Append(run_errors, run_exc)
              /\ run_stage_failed' = TRUE
              /\ run_exc' = NoExc
    /\ run_pc' = "finally"
    /\ UNCHANGED <<runConfig, run_package_repositories,
                   run_si, run_ji, run_vi, run_job, run_attempts,
                   run_calls, run_launched, run_cleaned, run_lxd, run_ret>>
    /\ UNCHANGED otherThanRun

\* lines 684-693: finally, then on to the next job or out with the exception
RunFinally ==
    /\ run_pc = "finally"
    /\ clean_in_finally(run_exc)
    /\ IF run_exc' # NoExc
         THEN run_pc' = "main" /\ UNCHANGED run_ji
         ELSE run_pc' = "job" /\ run_ji' = run_ji + 1
    /\ UNCHANGED <<runConfig, run_package_repositories,
                   run_si, run_vi, run_job, run_stage_failed,
                   run_errors, run_attempts, run_calls, run_launched, run_ret>>
    /\ UNCHANGED otherThanRun

\* lines 694-697: after the jobs of the stage
RunEndStage ==
    /\ run_pc = "endstage"
    /\ IF run_stage_failed
         THEN /\ run_exc' = SomeJobsFailed(CurrentStage)
              /\ run_pc' = "main"
              /\ UNCHANGED run_si
         ELSE /\ run_si' = run_si + 1
              /\ run_pc' = "stage"
              /\ UNCHANGED run_exc
    /\ UNCHANGED <<runConfig, run_package_repositories,
                   run_ji, run_vi, run_job, run_stage_failed,
                   run_errors, run_attempts, run_calls, run_launched,
                   run_cleaned, run_lxd, run_ret>>
    /\ UNCHANGED otherThanRun

\* jobs[index] of a Python list
PyIndexOk(q, index) == 0 - Len(q) <= index /\ index < Len(q)
PyIndex(q, index) == IF index >= 0 THEN q[index + 1] ELSE q[Len(q) + index + 1]

\* RunOneCommand.run, lines 790-797: the job and the index are looked up
RunOneSelect ==
    /\ run_pc = "one_select"
    /\ LET jobs == run_jobs[run_one_job]
       IN IF jobs = <<>>
            THEN /\ run_exc' = NoJobDefinition(run_one_job)
                 /\ run_pc' = "main"
                 /\ UNCHANGED run_job
            ELSE IF run_one_index >= Len(jobs)
            THEN /\ run_exc' = NoJobIndex(run_one_index, run_one_job)
                 /\ run_pc' = "main"
                 /\ UNCHANGED run_job
            ELSE IF ~PyIndexOk(jobs, run_one_index)
            THEN /\ run_exc' = IndexError
                 /\ run_pc' = "main"
                 /\ UNCHANGED run_job
            ELSE /\ run_job' = PyIndex(jobs, run_one_index)
                 /\ run_pc' = "one_job"
                 /\ UNCHANGED run_exc
    /\ UNCHANGED <<runConfig, run_package_repositories,
                   run_si, run_ji, run_vi, run_stage_failed,
                   run_errors, run_attempts, run_calls, run_launched,
                   run_cleaned, run_lxd, run_ret>>
    /\ UNCHANGED otherThanRun

\* RunOneCommand.run, lines 814-829: try: _run_job(...)
RunOneJob ==
    /\ run_pc = "one_job"
    /\ run_package_repositories' =
           run_package_repositories \o run_job.package_repositories
    /\ run_job_call(1, 1, run_one_job, run_one_index,
                    PyIndex(run_jobs[run_one_job], run_one_index),
                    run_package_repositories')
    /\ run_attempts' = Append(run_attempts,
            [stage |-> 1, pos |-> 1, job |-> run_one_job, exc |-> run_exc'])
    /\ run_pc' = "one_finally"
    /\ UNCHANGED <<runConfig, run_si, run_ji, run_vi, run_job,
                   run_stage_failed, run_errors, run_cleaned, run_ret>>
    /\ UNCHANGED otherThanRun

\* RunOneCommand.run, lines 830-839: finally, then return 0 or the exception
RunOneFinally ==
    /\ run_pc = "one_finally"
    /\ clean_in_finally(run_exc)
    /\ run_pc' = "main"
    /\ UNCHANGED <<runConfig, run_package_repositories,
                   run_si, run_ji, run_vi, run_job,
                   run_stage_failed, run_errors, run_attempts, run_calls,
                   run_launched, run_ret>>
    /\ UNCHANGED otherThanRun

\* main(), lines 159-177: the exit code, and the error emitted
RunMain ==
    /\ run_pc = "main"
    /\ run_pc' = "done"
    /\ IF run_exc = NoExc
         THEN run_ret' = 0 /\ UNCHANGED run_errors
         ELSE IF run_exc.type = "CommandError"
         THEN /\ run_ret' = run_exc.retcode
              /\ run_errors' = Append(run_errors, run_exc)
         ELSE /\ run_ret' = 1
              /\ run_errors' = Append(run_errors, InternalError(run_exc))
    /\ UNCHANGED <<runConfig, run_package_repositories,
                   run_si, run_ji, run_vi, run_job,
                   run_stage_failed, run_exc, run_attempts, run_calls,
                   run_launched, run_cleaned, run_lxd>>
    /\ UNCHANGED otherThanRun

InitRun == RunInit /\ NameIdle /\ CleanIdle /\ EnvIdle /\ LaterIdle
NextRun ==
    \/ RunBeginStage \/ RunTryJob \/ RunVariant \/ RunExcept \/ RunFinally
    \/ RunEndStage \/ RunOneSelect \/ RunOneJob \/ RunOneFinally \/ RunMain
SpecRun == InitRun /\ [][NextRun]_vars

-----------------------------------------------------------------------------
(* SpecJob: the steps of _run_job, over the _run_job calls of one run.      *)
(* Every variant drawn is for the host architecture (the other case is in   *)
(* SpecRun); the run stops at the first call that raises, as a run of       *)
(* single-job stages does.                                                  *)

\* the jobs of the configurations drawn: build (a matrix of two variants)
\* and test, which takes its input from build; both declare output
JobInput(job_name) == IF job_name = "test" THEN "build" ELSE "none"
JobHasOutput(job_name) == job_name \in {"build", "test"}

PlanCalls == {[job |-> "build", index |-> 0], [job |-> "build", index |-> 1],
              [job |-> "test", index |-> 0]}

\* the position of a call in a plan, 0 if it is not in it
PlanIndex(plan, call) ==
    IF \E i \in 1..Len(plan) : plan[i] = call
      THEN CHOOSE i \in 1..Len(plan) : plan[i] = call
      ELSE 0

\* the calls of a run: variants of a job in matrix order
Plans ==
    {plan \in DistinctSeqsUpTo(PlanCalls, Cardinality(PlanCalls)) :
        /\ plan # <<>>
        /\ LET b0 == PlanIndex(plan, [job |-> "build", index |-> 0])
               b1 == PlanIndex(plan, [job |-> "build", index |-> 1])
           IN (b0 # 0 /\ b1 # 0) => b0 < b1}

JobFlags == [snaps : BOOLEAN, packages : BOOLEAN, run_before : BOOLEAN,
             run : BOOLEAN, run_after : BOOLEAN]

\* what an output directory may hold when the run starts: directories a
\* previous run wrote
StaleDirs == {[job |-> "build", index |-> i, fresh |-> FALSE, complete |-> TRUE] :
                 i \in {0, 1}}

NoRunCommand(job_name) ==
    [type |-> "CommandError", msg |-> <<"does not set 'run'", job_name>>,
     retcode |-> 1]
SnapInstallationError ==
    [type |-> "SnapInstallationError", msg |-> <<>>, retcode |-> 0]
InputNotExecuted(job_name) ==
    [type |-> "CommandError",
     msg |-> <<"Requested input, but that job was not previously executed",
               job_name>>,
     retcode |-> 1]
InputAmbiguous(job_name) ==
    [type |-> "CommandError",
     msg |-> <<"Requested input, but more than one job with that name",
               job_name>>,
     retcode |-> 1]
CopyError(what) ==
    [type |-> "CommandError", msg |-> <<"copy failed", what>>, retcode |-> 1]

JobInit ==
    /\ job_plan \in Plans
    /\ job_flags \in JobFlags
    /\ job_output \in BOOLEAN
    /\ \/ job_output /\ job_host \in SUBSET StaleDirs
       \/ ~job_output /\ job_host = {}
    /\ job_k = 1 /\ job_pc = "call" /\ job_steps = <<>> /\ job_exc = NoExc

CurrentCall == job_plan[job_k]

\* the steps inside "with provider.launched_environment(...)", lines 483-542
StepOrder == <<"snaps", "apt_update", "apt_install", "copy_in", "run_before",
               "run", "run_after", "copy_out", "properties">>

StepIndex(step) == CHOOSE i \in 1..Len(StepOrder) : StepOrder[i] = step

\* the conditions under which _run_job executes a step for the current call
Applicable(step) ==
    CASE step = "snaps" -> job_flags.snaps
      [] step \in {"apt_update", "apt_install"} -> job_flags.packages
      [] step = "copy_in" -> JobInput(CurrentCall.job) # "none" /\ job_output
      [] step = "run_before" -> job_flags.run_before
      [] step = "run" -> job_flags.run
      [] step = "run_after" -> job_flags.run_after
      [] step \in {"copy_out", "properties"} ->
             JobHasOutput(CurrentCall.job) /\ job_output

\* the first step after the i-th that is executed, "return" if none
NextStep(i) ==
    LET later == {j \in (i + 1)..Len(StepOrder) : Applicable(StepOrder[j])}
    IN IF later = {} THEN "return"
       ELSE StepOrder[CHOOSE j \in later : \A k \in later : j <= k]

Logged(step, ok, seen) ==
    job_steps' = Append(job_steps,
        [call |-> job_k, step |-> step, ok |-> ok, seen |-> seen])

\* a step that went well goes on to the next one; one that raised leaves
\* _run_job with its exception
Outcome(step, ok, exc) ==
    IF ok THEN job_pc' = NextStep(StepIndex(step)) /\ UNCHANGED job_exc
    ELSE job_pc' = "return" /\ job_exc' = exc

jobConfig == <<job_plan, job_flags, job_output>>

\* lines 415-482: the commands are resolved (CommandError without a run
\* command) and the environment is launched
JobCall ==
    /\ job_pc = "call"
    /\ IF ~job_flags.run
         THEN job_exc' = NoRunCommand(CurrentCall.job) /\ job_pc' = "return"
         ELSE \/ job_exc' = LaunchFailed /\ job_pc' = "return"
              \/ job_pc' = NextStep(0) /\ UNCHANGED job_exc
    /\ UNCHANGED <<jobConfig, job_host, job_k, job_steps>>
    /\ UNCHANGED otherThanJob

\* lines 483-491: install_from_store for the snaps
JobSnaps ==
    /\ job_pc = "snaps"
    /\ \E ok \in BOOLEAN :
          /\ Logged("snaps", ok, {})
          /\ Outcome("snaps", ok, SnapInstallationError)
    /\ UNCHANGED <<jobConfig, job_host, job_k>>
    /\ UNCHANGED otherThanJob

\* an apt update whose exit status is not looked at
JobAptUpdate_IgnoresExitStatus ==
    /\ job_pc = "apt_update"
    /\ \E returncode \in RetCodes :
          /\ Logged("apt_update", returncode = 0, {})
          /\ Outcome("apt_update", TRUE, NoExc)
    /\ UNCHANGED <<jobConfig, job_host, job_k>>
    /\ UNCHANGED otherThanJob

\* _install_apt_packages, lines 331-348: apt update
JobAptUpdate ==
    /\ job_pc = "apt_update"
    /\ \E returncode \in RetCodes :
          /\ Logged("apt_update", returncode = 0, {})
          /\ Outcome("apt_update", returncode = 0,
                     JobFailed(CurrentCall.job, SeriesFocal, returncode))
    /\ UNCHANGED <<jobConfig, job_host, job_k>>
    /\ UNCHANGED otherThanJob

\* _install_apt_packages, lines 349-366: apt install -y
JobAptInstall ==
    /\ job_pc = "apt_install"
    /\ \E returncode \in RetCodes :
          /\ Logged("apt_install", returncode = 0, {})
          /\ Outcome("apt_install", returncode = 0,
                     JobFailed(CurrentCall.job, SeriesFocal, returncode))
    /\ UNCHANGED <<jobConfig, job_host, job_k>>
    /\ UNCHANGED otherThanJob

\* the directories of the input job in the output directory
SourceJobs == {d \in job_host : d.job = JobInput(CurrentCall.job)}

\* a copy-in that takes the first directory when there are several
JobCopyIn_TakesFirst ==
    /\ job_pc = "copy_in"
    /\ IF SourceJobs = {}
         THEN /\ Logged("copy_in", FALSE, SourceJobs)
              /\ Outcome("copy_in", FALSE, InputNotExecuted(JobInput(CurrentCall.job)))
         ELSE \E ok \in BOOLEAN :
                 /\ Logged("copy_in", ok, SourceJobs)
                 /\ Outcome("copy_in", ok, CopyError("input"))
    /\ UNCHANGED <<jobConfig, job_host, job_k>>
    /\ UNCHANGED otherThanJob

\* lines 507-508 and _copy_input_paths: none or several directories of the
\* input job raise; the target directory may escape and a push may fail
JobCopyIn ==
    /\ job_pc = "copy_in"
    /\ IF SourceJobs = {}
         THEN /\ Logged("copy_in", FALSE, SourceJobs)
              /\ Outcome("copy_in", FALSE, InputNotExecuted(JobInput(CurrentCall.job)))
         ELSE IF Cardinality(SourceJobs) > 1
         THEN /\ Logged("copy_in", FALSE, SourceJobs)
              /\ Outcome("copy_in", FALSE, InputAmbiguous(JobInput(CurrentCall.job)))
         ELSE \E ok \in BOOLEAN :
                 /\ Logged("copy_in", ok, SourceJobs)
                 /\ Outcome("copy_in", ok, CopyError("input"))
    /\ UNCHANGED <<jobConfig, job_host, job_k>>
    /\ UNCHANGED otherThanJob

\* lines 510-520: one iteration of "for cmd in (pre_run_command,
\* run_command, post_run_command)" with a command set
JobCommand ==
    /\ job_pc \in {"run_before", "run", "run_after"}
    /\ \E returncode \in RetCodes :
          /\ Logged(job_pc, returncode = 0, {})
          /\ Outcome(job_pc, returncode = 0,
                     JobFailed(CurrentCall.job, SeriesFocal, returncode))
    /\ UNCHANGED <<jobConfig, job_host, job_k>>
    /\ UNCHANGED otherThanJob

\* the directory of the current call in the output directory
SameDir(d) == d.job = CurrentCall.job /\ d.index = CurrentCall.index

\* lines 536-539: target_path.mkdir(parents=True, exist_ok=True), then
\* _copy_output_paths
JobCopyOut ==
    /\ job_pc = "copy_out"
    /\ job_host' = {d \in job_host : ~SameDir(d)} \cup
          {[job |-> CurrentCall.job, index |-> CurrentCall.index,
            fresh |-> TRUE,
            complete |-> \E d \in job_host : SameDir(d) /\ d.complete]}
    /\ \E ok \in BOOLEAN :
          /\ Logged("copy_out", ok, {})
          /\ Outcome("copy_out", ok, CopyError("output"))
    /\ UNCHANGED <<jobConfig, job_k>>
    /\ UNCHANGED otherThanJob

\* lines 540-542: _copy_output_properties writes the properties file unless
\* the dynamic properties path escapes
JobProperties ==
    /\ job_pc = "properties"
    /\ \E ok \in BOOLEAN :
          /\ Logged("properties", ok, {})
          /\ Outcome("properties", ok, CopyError("properties"))
          /\ job_host' = IF ok
                           THEN {IF SameDir(d) THEN [d EXCEPT !.complete = TRUE]
                                 ELSE d : d \in job_host}
                           ELSE job_host
    /\ UNCHANGED <<jobConfig, job_k>>
    /\ UNCHANGED otherThanJob

\* _run_job returns or raises: the run goes on with the next call, or ends
JobReturn ==
    /\ job_pc = "return"
    /\ IF job_exc # NoExc \/ job_k = Len(job_plan)
         THEN job_pc' = "done" /\ UNCHANGED job_k
         ELSE job_pc' = "call" /\ job_k' = job_k + 1
    /\ UNCHANGED <<jobConfig, job_host, job_steps, job_exc>>
    /\ UNCHANGED otherThanJob

InitJob == JobInit /\ NameIdle /\ CleanIdle /\ EnvIdle /\ RunIdle /\ PropsIdle
    /\ ResolveIdle
    /\ EnvMergeIdle
    /\ CopyOutIdle
    /\ MatrixIdle
    /\ RoundTripIdle
    /\ HooksIdle
NextJob ==
    \/ JobCall \/ JobSnaps \/ JobAptUpdate \/ JobAptInstall \/ JobCopyIn
    \/ JobCommand \/ JobCopyOut \/ JobProperties \/ JobReturn
SpecJob == InitJob /\ [][NextJob]_vars

-----------------------------------------------------------------------------
(* SpecProps: the properties file of a job whose output is written:         *)
(* the license step of _run_job, then _copy_output_properties.              *)

\* most entries in a dynamic properties file
MaxDynamicEntries == 2

PropKeys == {"license", "version"}

\* property values: no such key, a string, or a dict with the keys spdx and
\* path ("unset" when the dict has no such key, "null" for None) and
\* possibly another key
Absent == [kind |-> "absent", str |-> "", spdx |-> "", path |-> "", other |-> FALSE]
Str(v) == [kind |-> "str", str |-> v, spdx |-> "", path |-> "", other |-> FALSE]
Dict(spdx, path, other) ==
    [kind |-> "dict", str |-> "", spdx |-> spdx, path |-> path, other |-> other]

\* config.license: not set, or License.dict() with one of spdx and path set
NoLicense == [spdx |-> "unset", path |-> "unset"]
Licenses == {NoLicense, [spdx |-> "MIT", path |-> "null"],
             [spdx |-> "null", path |-> "LICENSE.txt"]}

\* the static properties drawn
StaticProperties ==
    {[key \in PropKeys |-> IF key = "license" THEN l ELSE v] :
        l \in {Absent, Str("GPL-3"), Dict("unset", "unset", TRUE)},
        v \in {Absent, Str("1.0")}}

\* a line of the dynamic properties file: KEY=VALUE, or KEY alone
Assign(key, value) == [key |-> key, has_value |-> TRUE, value |-> value]
Remove(key) == [key |-> key, has_value |-> FALSE, value |-> ""]
DynamicEntries ==
    {Assign(key, value) : key \in PropKeys, value \in {"2.0", "3.0"}}
        \cup {Remove(key) : key \in PropKeys}

\* run.py lines 521-534: the license is put into job.output.properties;
\* item assignment on a value that is not a dict raises TypeError
license_properties(properties, license) ==
    LET old == properties["license"]
    IN IF old.kind = "str"
         THEN [raised |-> TRUE, properties |-> properties]
         ELSE [raised |-> FALSE,
               properties |-> [properties EXCEPT !["license"] =
                   Dict(license.spdx, license.path,
                        IF old.kind = "dict" THEN old.other ELSE FALSE)]]

\* dotenv_values: an ordered dict, a key standing where it first appears
\* with the value it last has
RECURSIVE dotenv_values(_)
dotenv_values(entries) ==
    IF entries = <<>> THEN <<>>
    ELSE LET last == entries[Len(entries)]
             before == dotenv_values(SubSeq(entries, 1, Len(entries) - 1))
         IN IF \E i \in 1..Len(before) : before[i].key = last.key
              THEN [i \in 1..Len(before) |->
                       IF before[i].key = last.key THEN last ELSE before[i]]
              ELSE Append(before, last)

\* _copy_output_properties, lines 259-263: the loop over the items
RECURSIVE update_properties(_, _)
update_properties(properties, items) ==
    IF items = <<>> THEN properties
    ELSE LET item == Head(items)
         IN update_properties(
                IF item.has_value
                  THEN [properties EXCEPT ![item.key] = Str(item.value)]
                  ELSE [properties EXCEPT ![item.key] = Absent],
                Tail(items))

\* a loop that only sets values
copy_output_properties_IgnoresRemovals(properties, entries) ==
    update_properties(properties,
        SelectSeq(dotenv_values(entries), LAMBDA item : item.has_value))

\* _copy_output_properties: the properties written
copy_output_properties(properties, entries) ==
    update_properties(properties, dotenv_values(entries))

PropsInit ==
    /\ pr_license \in Licenses
    /\ pr_static \in StaticProperties
    /\ pr_properties = pr_static
    /\ pr_dynamic \in SeqsUpTo(DynamicEntries, MaxDynamicEntries)
    /\ pr_pc = "start"
    /\ pr_written = [key \in PropKeys |-> Absent]

\* _run_job, lines 521-534: "if config.license:"
PropsLicense ==
    /\ pr_pc = "start"
    /\ IF pr_license = NoLicense
         THEN pr_pc' = "copy" /\ UNCHANGED pr_properties
         ELSE LET result == license_properties(pr_properties, pr_license)
              IN /\ pr_properties' = result.properties
                 /\ pr_pc' = IF result.raised THEN "raised" ELSE "copy"
    /\ UNCHANGED <<pr_license, pr_static, pr_dynamic, pr_written>>
    /\ UNCHANGED otherThanProps

\* _run_job, lines 540-542: _copy_output_properties
PropsWrite ==
    /\ pr_pc = "copy"
    /\ pr_written' = copy_output_properties(pr_properties, pr_dynamic)
    /\ pr_pc' = "written"
    /\ UNCHANGED <<pr_license, pr_static, pr_properties, pr_dynamic>>
    /\ UNCHANGED otherThanProps

InitProps == PropsInit /\ NameIdle /\ CleanIdle /\ EnvIdle /\ RunIdle /\ JobIdle
    /\ ResolveIdle
    /\ EnvMergeIdle
    /\ CopyOutIdle
    /\ MatrixIdle
    /\ RoundTripIdle
    /\ HooksIdle
NextProps == PropsLicense \/ PropsWrite
SpecProps == InitProps /\ [][NextProps]_vars

-----------------------------------------------------------------------------
(* SpecResolve: _resolve_runtime_value, called for one of before_run, run   *)
(* and after_run on a job.                                                  *)

\* most results a hook call returns
MaxHookResults == 2

\* an Optional[str]: None, or a string
None == [some |-> FALSE, str |-> ""]
Some(v) == [some |-> TRUE, str |-> v]

\* PLUGINS: the registered plugin classes and their INTERPOLATES_RUN_COMMAND
PLUGINS ==
    [name \in {"tox", "pyproject-build", "miniconda", "conda-build", "golang"}
        |-> name \in {"miniconda", "conda-build", "golang"}]
PluginNames == DOMAIN PLUGINS

\* the three calls _run_job makes
HookCalls ==
    {[hook_name |-> "lpcraft_execute_before_run", job_property |-> "run_before"],
     [hook_name |-> "lpcraft_execute_run", job_property |-> "run"],
     [hook_name |-> "lpcraft_execute_after_run", job_property |-> "run_after"]}

\* jobs: each fragment not set, empty or set; no plugin or a registered one
\* (get_plugin_manager has refused any other before the first call)
FragmentBefore == "echo before"
FragmentRun == "echo run"
FragmentAfter == "echo after"
ResolveJobs ==
    [run_before : {None, Some(FragmentBefore)},
     run : {None, Some(""), Some(FragmentRun)},
     run_after : {None, Some(FragmentAfter)},
     plugin : {None} \cup {Some(p) : p \in PluginNames}]

\* what the contributors of a hook return, in the order pluggy gives them
HookResults == {"command of the plugin", "command of another contributor"}

\* the user's fragment whenever there is one
resolve_runtime_value_ConfigAlwaysWins(job, job_property, rv) ==
    IF job[job_property] # None
      THEN job[job_property]
      ELSE IF rv = <<>> THEN None ELSE Some(Head(rv))

\* _resolve_runtime_value, rv being what getattr(pm.hook, hook_name)() gives
resolve_runtime_value(job, job_property, rv) ==
    LET command_from_config == job[job_property]
        plugin == job.plugin
        interpolated_run_command ==
            IF plugin # None /\ plugin.str \in DOMAIN PLUGINS
              THEN PLUGINS[plugin.str]
              ELSE FALSE
    IN IF command_from_config # None /\ ~interpolated_run_command
         THEN command_from_config
         ELSE IF rv = <<>> THEN None ELSE Some(Head(rv))

ResolveInit ==
    /\ rs_job \in ResolveJobs
    /\ rs_hook \in HookCalls
    /\ rs_rv \in SeqsUpTo(HookResults, MaxHookResults)
    /\ rs_pc = "call"
    /\ rs_value = None

ResolveCall ==
    /\ rs_pc = "call"
    /\ rs_value' = resolve_runtime_value(rs_job, rs_hook.job_property, rs_rv)
    /\ rs_pc' = "returned"
    /\ UNCHANGED <<rs_job, rs_hook, rs_rv>>
    /\ UNCHANGED otherThanResolve

InitResolve == ResolveInit /\ NameIdle /\ CleanIdle /\ EnvIdle /\ RunIdle
    /\ JobIdle
    /\ PropsIdle
    /\ EnvMergeIdle
    /\ CopyOutIdle
    /\ MatrixIdle
    /\ RoundTripIdle
    /\ HooksIdle
NextResolve == ResolveCall
SpecResolve == InitResolve /\ [][NextResolve]_vars

-----------------------------------------------------------------------------
(* SpecEnvMerge: the environment _run_job builds and passes to each of the  *)
(* commands of the job. Strings of --set-env are sequences of characters.   *)

\* most --set-env options given
MaxCliEntries == 2

\* the keys of the dicts: "A", "B" and the empty string
EnvKeys == {<<"A">>, <<"B">>, <<>>}

\* a value of Dict[str, Optional[str]] at a key: no such key, None, a string
Missing == [kind |-> "missing", str |-> <<>>]
NoneValue == [kind |-> "none", str |-> <<>>]
StrValue(s) == [kind |-> "str", str |-> s]

EmptyDict == [key \in EnvKeys |-> Missing]
\* job.environment not given
NoDict == [key \in EnvKeys |-> [kind |-> "nodict", str |-> <<>>]]

\* dict.update
Update(dict, other) ==
    [key \in EnvKeys |-> IF other[key] # Missing THEN other[key] ELSE dict[key]]

\* what the contributors of lpcraft_set_environment return
PluginEnvironments ==
    {<<>>,
     <<[EmptyDict EXCEPT ![<<"A">>] = StrValue(<<"p">>)]>>,
     <<[EmptyDict EXCEPT ![<<"A">>] = StrValue(<<"p">>),
                         ![<<"B">>] = StrValue(<<"p">>)],
       [EmptyDict EXCEPT ![<<"A">>] = StrValue(<<"q">>)]>>}

\* job.environment
JobEnvironments ==
    {NoDict, EmptyDict,
     [EmptyDict EXCEPT ![<<"A">>] = StrValue(<<"j">>)],
     [EmptyDict EXCEPT ![<<"A">>] = NoneValue],
     [EmptyDict EXCEPT ![<<"B">>] = StrValue(<<"j">>)],
     [EmptyDict EXCEPT ![<<"A">>] = NoneValue, ![<<"B">>] = StrValue(<<"j">>)]}

\* --set-env values: A=c, A=c=d, B=, A==, =c, and A with no "="
CliEntries ==
    {<<"A", "=", "c">>, <<"A", "=", "c", "=", "d">>, <<"B", "=">>,
     <<"A", "=", "=">>, <<"=", "c">>, <<"A">>}

\* where the first "=" of a string is, 0 if it has none
RECURSIVE FirstEquals(_, _)
FirstEquals(s, i) ==
    IF i > Len(s) THEN 0
    ELSE IF s[i] = "=" THEN i ELSE FirstEquals(s, i + 1)

\* a split at the last "="
split_AtLast(pair) ==
    LET at == {n \in 1..Len(pair) : pair[n] = "="}
    IN IF at = {} THEN <<pair>>
       ELSE LET i == CHOOSE n \in at : \A m \in at : m <= n
            IN <<SubSeq(pair, 1, i - 1), SubSeq(pair, i + 1, Len(pair))>>

\* pair.split("=", maxsplit=1)
split(pair) ==
    LET i == FirstEquals(pair, 1)
    IN IF i = 0 THEN <<pair>>
       ELSE <<SubSeq(pair, 1, i - 1), SubSeq(pair, i + 1, Len(pair))>>

\* dict(...) of a list of lists: each must have two elements, the last of a
\* key stays
RECURSIVE dict_of(_)
dict_of(lists) ==
    IF lists = <<>> THEN EmptyDict
    ELSE LET l == lists[Len(lists)]
         IN [dict_of(SubSeq(lists, 1, Len(lists) - 1)) EXCEPT
                ![l[1]] = StrValue(l[2])]

ValueError == [type |-> "ValueError", retcode |-> 1]

EnvMergeInit ==
    /\ em_rv \in PluginEnvironments
    /\ em_configuration \in JobEnvironments
    /\ em_cli \in SeqsUpTo(CliEntries, MaxCliEntries)
    /\ em_commands \in {<<"run">>, <<"run_before", "run", "run_after">>}
    /\ em_pc = "build"
    /\ em_environment = EmptyDict
    /\ em_runs = <<>>

\* _run_job, lines 452-469
EnvMergeBuild ==
    /\ em_pc = "build"
    /\ LET env_from_plugin == IF em_rv # <<>> THEN em_rv[1] ELSE EmptyDict
           environment ==
               IF em_configuration # NoDict
                 THEN Update(env_from_plugin, em_configuration)
                 ELSE env_from_plugin
           pairs == [i \in 1..Len(em_cli) |-> split(em_cli[i])]
       IN IF em_cli = <<>>
            THEN em_environment' = environment /\ em_pc' = "run"
            ELSE IF \E i \in 1..Len(pairs) : Len(pairs[i]) # 2
              THEN em_pc' = "raised" /\ UNCHANGED em_environment
              ELSE /\ em_environment' = Update(environment, dict_of(pairs))
                   /\ em_pc' = "run"
    /\ UNCHANGED <<em_rv, em_configuration, em_cli, em_commands, em_runs>>
    /\ UNCHANGED otherThanEnvMerge

\* _run_job, lines 510-520: a command is run with the environment
EnvMergeCommand ==
    /\ em_pc = "run"
    /\ Len(em_runs) < Len(em_commands)
    /\ em_runs' = Append(em_runs, [command |-> em_commands[Len(em_runs) + 1],
                                   env |-> em_environment])
    /\ UNCHANGED <<em_rv, em_configuration, em_cli, em_commands, em_pc,
                   em_environment>>
    /\ UNCHANGED otherThanEnvMerge

InitEnvMerge == EnvMergeInit /\ NameIdle /\ CleanIdle /\ EnvIdle /\ RunIdle
    /\ JobIdle
    /\ PropsIdle
    /\ ResolveIdle
    /\ CopyOutIdle
    /\ MatrixIdle
    /\ RoundTripIdle
    /\ HooksIdle
NextEnvMerge == EnvMergeBuild \/ EnvMergeCommand
SpecEnvMerge == InitEnvMerge /\ [][NextEnvMerge]_vars

-----------------------------------------------------------------------------
(* SpecCopyOut: _copy_output_paths on an instance that holds a few files    *)
(* and a symbolic link. A path is the sequence of its components; absolute  *)
(* paths are written from the root.                                         *)

\* most patterns in output.paths
MaxPatterns == 2

\* env.get_managed_environment_project_path() and its parent
RemoteCwdParent == <<"root", "lpcraft">>
RemoteCwdName == "project"
RemoteCwd == Append(RemoteCwdParent, RemoteCwdName)

\* target_path / "files" on the host
OutputFiles == <<"output", "build", "0", "files">>

\* files outside the parent of the build tree
Passwd == <<"etc", "passwd">>
Secret == <<"root", "secret">>

\* what find may list, relative to the parent of the build tree
ConfigFile == <<"project", ".launchpad.yaml">>
SubFile == <<"project", "sub", "b.txt">>
OtherFile == <<"other.txt">>
TreeOtherFile == <<"project", "other.txt">>
LinkFile == <<"project", "link">>
NoLink == <<>>

\* the instance: .launchpad.yaml is always there; the link, if there is
\* one, resolves to link (an absolute path that may not exist)
FileSystems ==
    [files : {{ConfigFile} \cup s : s \in SUBSET {SubFile, OtherFile, TreeOtherFile}},
     link : {NoLink, Passwd, Secret, RemoteCwdParent \o OtherFile,
             RemoteCwdParent \o SubFile}]

\* all the paths readlink can give, as sorted() orders them
PathOrder ==
    <<Passwd, RemoteCwdParent \o OtherFile, RemoteCwdParent \o ConfigFile,
      RemoteCwdParent \o TreeOtherFile, RemoteCwdParent \o SubFile, Secret>>

\* the patterns drawn, relative ones and an absolute one
Pattern(absolute, parts) == [absolute |-> absolute, parts |-> parts]
Patterns ==
    {Pattern(FALSE, <<"*">>), Pattern(FALSE, <<".launchpad.yaml">>),
     Pattern(FALSE, <<"sub", "*">>), Pattern(FALSE, <<"link">>),
     Pattern(FALSE, <<"..", "other.txt">>), Pattern(FALSE, <<"..", "*">>),
     Pattern(FALSE, <<"..", "..", "secret">>),
     Pattern(FALSE, <<"*", "..", "..", "..", "..", "etc", "passwd">>),
     Pattern(TRUE, Passwd)}
OutputPaths ==
    {[given |-> FALSE, list |-> <<>>]}
        \cup {[given |-> TRUE, list |-> l] :
                l \in SeqsUpTo(Patterns, MaxPatterns)}

\* os.path.normpath of an absolute path
RECURSIVE normpath(_, _)
normpath(parts, done) ==
    IF parts = <<>> THEN done
    ELSE IF Head(parts) = ".."
      THEN normpath(Tail(parts),
                    IF done = <<>> THEN <<>>
                    ELSE SubSeq(done, 1, Len(done) - 1))
      ELSE normpath(Tail(parts), Append(done, Head(parts)))

\* PurePath.relative_to: ok is FALSE where it raises ValueError
relative_to(path, container) ==
    IF Len(path) >= Len(container)
         /\ SubSeq(path, 1, Len(container)) = container
      THEN [ok |-> TRUE,
            path |-> SubSeq(path, Len(container) + 1, Len(path))]
      ELSE [ok |-> FALSE, path |-> path]

\* _remove_prefix_if_possible
remove_prefix_if_possible(path, prefix) ==
    IF relative_to(path, <<prefix>>).ok
      THEN relative_to(path, <<prefix>>).path
      ELSE path

\* _list_files(instance, remote_cwd.parent): all that is not a directory
list_files(fs) ==
    fs.files \cup (IF fs.link # NoLink THEN {LinkFile} ELSE {})

\* os.path.relpath(path, remote_cwd.name) of a listed path
relpath(path) ==
    IF Head(path) = RemoteCwdName THEN Tail(path) ELSE <<"..">> \o path

\* fnmatch of a path against a pattern: "*" stands for any characters, the
\* separator among them, so for one or more components
RECURSIVE fnmatch(_, _)
fnmatch(name, pat) ==
    IF pat = <<>> THEN name = <<>>
    ELSE IF Head(pat) = "*"
      THEN \E k \in 1..Len(name) :
              fnmatch(SubSeq(name, k + 1, Len(name)), Tail(pat))
      ELSE /\ name # <<>>
           /\ Head(name) = Head(pat)
           /\ fnmatch(Tail(name), Tail(pat))

\* fnmatch.filter(paths, pattern); an absolute pattern matches no relative
\* path
filter(paths, pattern) ==
    IF pattern.absolute THEN {}
    ELSE {path \in paths : fnmatch(path, pattern.parts)}

\* readlink -f of remote_cwd / path: the directories are no links, so ".."
\* is the directory above; the link gives what it resolves to
readlink(fs, path) ==
    LET there == normpath(RemoteCwd \o path, <<>>)
    IN IF there = RemoteCwdParent \o LinkFile /\ fs.link # NoLink
         THEN fs.link
         ELSE there

\* sorted() of the resolved paths of a set of matches, one entry a match
RECURSIVE sorted_resolved(_, _, _)
sorted_resolved(fs, filtered_paths, i) ==
    IF i > Len(PathOrder) THEN <<>>
    ELSE LET n == Cardinality({path \in filtered_paths :
                                  readlink(fs, path) = PathOrder[i]})
         IN [k \in 1..n |-> PathOrder[i]]
                \o sorted_resolved(fs, filtered_paths, i + 1)

\* the regular files of the instance, by absolute path
IsFile(fs, path) ==
    path \in {RemoteCwdParent \o f : f \in fs.files} \cup {Passwd, Secret}

\* the pattern put under remote_cwd, as the first loop checks it
pattern_path(pattern) ==
    normpath(IF pattern.absolute THEN pattern.parts
             ELSE RemoteCwd \o pattern.parts, <<>>)

NotMatched == [type |-> "CommandError", retcode |-> 1]
CalledProcessError == [type |-> "CalledProcessError", retcode |-> 1]

CopyOutInit ==
    /\ co_fs \in FileSystems
    /\ co_paths \in OutputPaths
    /\ co_pc = "check"
    /\ co_resolved = <<>>
    /\ co_i = 0
    /\ co_pulled = <<>>
    /\ co_exc = NoExc

\* lines 185-197: nothing to do without paths; the patterns as a whole
CopyOutCheck ==
    /\ co_pc = "check"
    /\ IF ~co_paths.given
         THEN co_pc' = "done" /\ UNCHANGED co_exc
         ELSE IF \E i \in 1..Len(co_paths.list) :
                    ~relative_to(pattern_path(co_paths.list[i]),
                                 RemoteCwdParent).ok
           THEN co_pc' = "raised" /\ co_exc' = CopyError("pattern")
           ELSE co_pc' = "match" /\ UNCHANGED co_exc
    /\ UNCHANGED <<co_fs, co_paths, co_resolved, co_i, co_pulled>>
    /\ UNCHANGED otherThanCopyOut

\* lines 199-222: the listing, the matches of each pattern, their resolution
\* (readlink given no path at all fails)
CopyOutMatch ==
    /\ co_pc = "match"
    /\ LET paths == {relpath(path) : path \in list_files(co_fs)}
           result(i) == filter(paths, co_paths.list[i])
           filtered_paths == UNION {result(i) : i \in 1..Len(co_paths.list)}
       IN IF \E i \in 1..Len(co_paths.list) : result(i) = {}
            THEN /\ co_pc' = "raised" /\ co_exc' = NotMatched
                 /\ UNCHANGED <<co_resolved, co_i>>
            ELSE IF filtered_paths = {}
              THEN /\ co_pc' = "raised" /\ co_exc' = CalledProcessError
                   /\ UNCHANGED <<co_resolved, co_i>>
              ELSE /\ co_resolved' = sorted_resolved(co_fs, filtered_paths, 1)
                   /\ co_i' = 1
                   /\ co_pc' = "pull"
                   /\ UNCHANGED co_exc
    /\ UNCHANGED <<co_fs, co_paths, co_pulled>>
    /\ UNCHANGED otherThanCopyOut

\* a loop that pulls what readlink gave, wherever it is
CopyOutPull_Unchecked ==
    /\ co_pc = "pull"
    /\ co_i <= Len(co_resolved)
    /\ LET path == co_resolved[co_i]
           relative_path ==
               remove_prefix_if_possible(
                   relative_to(path, RemoteCwdParent).path, RemoteCwdName)
       IN \E ok \in {b \in BOOLEAN : b => IsFile(co_fs, path)} :
             IF ok
               THEN /\ co_pulled' = Append(co_pulled,
                           [source |-> path,
                            destination |-> OutputFiles \o relative_path])
                    /\ co_i' = co_i + 1
                    /\ UNCHANGED <<co_pc, co_exc>>
               ELSE /\ co_pc' = "raised" /\ co_exc' = CopyError("pull")
                    /\ UNCHANGED <<co_pulled, co_i>>
    /\ UNCHANGED <<co_fs, co_paths, co_resolved>>
    /\ UNCHANGED otherThanCopyOut

\* lines 224-235, one turn of the loop: the resolved path is checked, then
\* pulled; pull_file fails on what is no file, and may fail on a file
CopyOutPull ==
    /\ co_pc = "pull"
    /\ co_i <= Len(co_resolved)
    /\ LET path == co_resolved[co_i]
           checked == relative_to(path, RemoteCwdParent)
           relative_path ==
               remove_prefix_if_possible(checked.path, RemoteCwdName)
       IN IF ~checked.ok
            THEN /\ co_pc' = "raised" /\ co_exc' = CopyError("resolved")
                 /\ UNCHANGED <<co_pulled, co_i>>
            ELSE \E ok \in {b \in BOOLEAN : b => IsFile(co_fs, path)} :
                   IF ok
                     THEN /\ co_pulled' = Append(co_pulled,
                                 [source |-> path,
                                  destination |-> OutputFiles \o relative_path])
                          /\ co_i' = co_i + 1
                          /\ UNCHANGED <<co_pc, co_exc>>
                     ELSE /\ co_pc' = "raised" /\ co_exc' = CopyError("pull")
                          /\ UNCHANGED <<co_pulled, co_i>>
    /\ UNCHANGED <<co_fs, co_paths, co_resolved>>
    /\ UNCHANGED otherThanCopyOut

\* the loop is over
CopyOutReturn ==
    /\ co_pc = "pull"
    /\ co_i > Len(co_resolved)
    /\ co_pc' = "done"
    /\ UNCHANGED <<co_fs, co_paths, co_resolved, co_i, co_pulled, co_exc>>
    /\ UNCHANGED otherThanCopyOut

InitCopyOut == CopyOutInit /\ NameIdle /\ CleanIdle /\ EnvIdle /\ RunIdle
    /\ JobIdle
    /\ PropsIdle
    /\ ResolveIdle
    /\ EnvMergeIdle
    /\ MatrixIdle
    /\ RoundTripIdle
    /\ HooksIdle
NextCopyOut == CopyOutCheck \/ CopyOutMatch \/ CopyOutPull \/ CopyOutReturn
SpecCopyOut == InitCopyOut /\ [][NextCopyOut]_vars











-----------------------------------------------------------------------------
(* SpecMatrix: Config.expand_matrix on the raw entry of one job, then the   *)
(* validation of the variants as Job. A dict is a record over the keys      *)
(* drawn, a key that is not in the dict having the value of NoKey there.    *)

\* most items in a matrix
MaxMatrixItems == 2

\* values of the keys series and run; NoKey for a dict without the key
NoKey == "(no such key)"
\* values of the key architectures: no key, a string, or a list
NoArchitectures == [kind |-> "nokey", list |-> <<>>]
ArchitecturesStr(a) == [kind |-> "str", list |-> <<a>>]
ArchitecturesList(l) == [kind |-> "list", list |-> l]
\* values of the key matrix: no key, or a list of dicts
NoMatrix == [has |-> FALSE, items |-> <<>>]
Matrix(items) == [has |-> TRUE, items |-> items]

RawDict(series, architectures, run, matrix) ==
    [series |-> series, architectures |-> architectures, run |-> run,
     matrix |-> matrix]

\* the matrix items drawn: the two of the test, an empty one, one with an
\* empty architectures list, and one that has a matrix of its own
MatrixItems ==
    {RawDict("bionic", ArchitecturesList(<<"amd64", "arm64">>), NoKey, NoMatrix),
     RawDict("focal", ArchitecturesStr("amd64"), "tox -e py38", NoMatrix),
     RawDict(NoKey, NoArchitectures, NoKey, NoMatrix),
     RawDict(NoKey, ArchitecturesList(<<>>), NoKey, NoMatrix),
     RawDict("jammy", NoArchitectures, NoKey,
             Matrix(<<RawDict("focal", ArchitecturesStr("arm64"), NoKey,
                              NoMatrix)>>))}

\* the raw job entries drawn
RawJobs ==
    {RawDict(series, architectures, run, matrix) :
        series \in {NoKey, "focal"},
        architectures \in {NoArchitectures, ArchitecturesStr("amd64"),
                           ArchitecturesList(<<>>),
                           ArchitecturesList(<<"amd64">>)},
        run \in {NoKey, "tox"},
        matrix \in {NoMatrix} \cup
                   {Matrix(items) :
                       items \in SeqsUpTo(MatrixItems, MaxMatrixItems)}}

\* dict.update on a copy
updated(dict, other) ==
    [series |-> IF other.series # NoKey THEN other.series ELSE dict.series,
     architectures |-> IF other.architectures # NoArchitectures
                         THEN other.architectures ELSE dict.architectures,
     run |-> IF other.run # NoKey THEN other.run ELSE dict.run,
     matrix |-> IF other.matrix # NoMatrix THEN other.matrix ELSE dict.matrix]

\* an expansion where the keys of the job win over those of the item
expand_job_values_ParentWins(values) ==
    IF values.matrix.has
      THEN [i \in 1..Len(values.matrix.items) |->
               updated(values.matrix.items[i],
                       [values EXCEPT !.matrix = NoMatrix])]
      ELSE <<values>>

\* an expansion that leaves the key matrix in the variants
expand_job_values_KeepsMatrix(values) ==
    IF values.matrix.has
      THEN [i \in 1..Len(values.matrix.items) |->
               updated(values, values.matrix.items[i])]
      ELSE <<values>>

\* _expand_job_values
expand_job_values(values) ==
    IF values.matrix.has
      THEN LET base_values == [values EXCEPT !.matrix = NoMatrix]
           IN [i \in 1..Len(values.matrix.items) |->
                  updated(base_values, values.matrix.items[i])]
      ELSE <<values>>

\* Job as a pydantic model of a dict: no key but its fields (matrix is none
\* of them), series and architectures required, architectures a string or a
\* list of any length
JobAccepts(values) ==
    /\ ~values.matrix.has
    /\ values.series # NoKey
    /\ values.architectures # NoArchitectures

\* Job.validate_architectures and the field: the list of the variant
job_architectures(values) == values.architectures.list

MatrixInit ==
    /\ mx_values \in RawJobs
    /\ mx_pc = "expand"
    /\ mx_expanded = <<>>

\* Config.expand_matrix for the job
MatrixExpand ==
    /\ mx_pc = "expand"
    /\ mx_expanded' = expand_job_values(mx_values)
    /\ mx_pc' = "validate"
    /\ UNCHANGED mx_values
    /\ UNCHANGED otherThanMatrix

\* jobs: Dict[StrictStr, List[Job]]: each variant is validated as a Job
MatrixValidate ==
    /\ mx_pc = "validate"
    /\ mx_pc' = IF \A i \in 1..Len(mx_expanded) : JobAccepts(mx_expanded[i])
                  THEN "accepted" ELSE "rejected"
    /\ UNCHANGED <<mx_values, mx_expanded>>
    /\ UNCHANGED otherThanMatrix

InitMatrix == MatrixInit /\ NameIdle /\ CleanIdle /\ EnvIdle /\ RunIdle
    /\ JobIdle
    /\ PropsIdle
    /\ ResolveIdle
    /\ EnvMergeIdle
    /\ CopyOutIdle
    /\ RoundTripIdle
    /\ HooksIdle
NextMatrix == MatrixExpand \/ MatrixValidate
SpecMatrix == InitMatrix /\ [][NextMatrix]_vars

-----------------------------------------------------------------------------
(* SpecRoundTrip: the output of a job, _copy_output_paths and               *)
(* _copy_output_properties as run_job calls them, then _copy_input_paths of *)
(* a job that takes its input from it. The bytes of a file are named by     *)
(* where the file was first: the absolute path in the producing instance,   *)
(* or TreeBytes for a file of the project tree of the dependent job.        *)

\* the patterns and instances of the producing job
RoundTripPatterns ==
    {Pattern(FALSE, <<"*">>), Pattern(FALSE, <<"sub", "*">>),
     Pattern(FALSE, <<"..", "other.txt">>),
     Pattern(FALSE, <<".launchpad.yaml">>)}
RoundTripFileSystems ==
    {fs \in FileSystems : fs.link \in {NoLink, RemoteCwdParent \o SubFile}}

\* a file: its path under some directory, and its bytes
File(path, bytes) == [path |-> path, bytes |-> bytes]
TreeBytes == <<"(project tree)">>

\* input.target_directory
TargetDirectories == {<<"artifacts">>, <<>>, <<"..">>}

\* what the project tree of the dependent job has under the build tree
Trees ==
    {{},
     {File(<<"artifacts", "files", "other.txt">>, TreeBytes)},
     {File(<<"artifacts", "files", "stale.txt">>, TreeBytes),
      File(<<"files", "stale.txt">>, TreeBytes)}}

\* the properties files drawn: static properties, and a dynamic file
RoundTripStatic ==
    {properties \in StaticProperties : properties["license"] = Absent}
RoundTripDynamic == {<<>>, <<Assign("version", "2.0")>>}

\* the properties file when there is none
NoProperties == [key \in PropKeys |-> Absent]

\* target_path / "files" on the host after the pulls: a later pull to a
\* destination replaces the file an earlier one wrote there
HostFiles ==
    {File(SubSeq(co_pulled[n].destination, Len(OutputFiles) + 1,
                 Len(co_pulled[n].destination)),
          co_pulled[n].source) :
        n \in {m \in 1..Len(co_pulled) :
                  \A later \in (m + 1)..Len(co_pulled) :
                      co_pulled[later].destination # co_pulled[m].destination}}

\* a push that drops the directories of the path
push_destination_Flat(target_path, path) ==
    target_path \o <<"files", path[Len(path)]>>

\* target_path / "files" / path
push_destination(target_path, path) ==
    target_path \o <<"files">> \o path

\* the files of a tree after the push of some files: a pushed file replaces
\* the one at its destination
pushed(tree, files, target_path) ==
    {f \in tree :
        \A g \in files : push_destination(target_path, g.path) # f.path}
        \cup {File(push_destination(target_path, g.path), g.bytes) :
                 g \in files}

RoundTripInit ==
    /\ rt_pc = "out"
    /\ rt_properties = NoProperties
    /\ rt_input = <<>>
    /\ rt_instance = {}
    /\ rt_pushed = NoProperties
    /\ rt_exc = NoExc

\* run.py lines 540-542: _copy_output_properties once _copy_output_paths
\* has returned
RoundTripProperties ==
    /\ rt_pc = "out"
    /\ co_pc = "done"
    /\ \E properties \in RoundTripStatic, entries \in RoundTripDynamic :
          rt_properties' = copy_output_properties(properties, entries)
    /\ rt_pc' = "in"
    /\ UNCHANGED <<rt_input, rt_instance, rt_pushed, rt_exc>>
    /\ UNCHANGED otherThanRoundTrip

\* _copy_input_paths: the one directory of the producing job, the target,
\* the pushes of the files and of the properties; a push may fail, and what
\* was pushed before it stays
RoundTripCopyIn ==
    /\ rt_pc = "in"
    /\ \E target_directory \in TargetDirectories, tree \in Trees,
          other_variant \in BOOLEAN :
          LET target == normpath(RemoteCwd \o target_directory, <<>>)
              checked == relative_to(target, RemoteCwd)
          IN /\ rt_input' = [target_directory |-> target_directory,
                             tree |-> tree, other_variant |-> other_variant]
             /\ IF other_variant
                  THEN /\ rt_pc' = "raised"
                       /\ rt_exc' = InputAmbiguous("build")
                       /\ rt_instance' = tree
                       /\ UNCHANGED rt_pushed
                  ELSE IF ~checked.ok
                    THEN /\ rt_pc' = "raised"
                         /\ rt_exc' = CopyError("target")
                         /\ rt_instance' = tree
                         /\ UNCHANGED rt_pushed
                    ELSE \/ /\ rt_pc' = "done"
                            /\ rt_instance' =
                                   pushed(tree, HostFiles, checked.path)
                            /\ rt_pushed' = rt_properties
                            /\ UNCHANGED rt_exc
                         \/ /\ rt_pc' = "raised"
                            /\ rt_exc' = CopyError("push")
                            /\ \E files \in SUBSET HostFiles :
                                  rt_instance' =
                                      pushed(tree, files, checked.path)
                            /\ UNCHANGED rt_pushed
    /\ UNCHANGED rt_properties
    /\ UNCHANGED otherThanRoundTrip

InitRoundTrip ==
    /\ HooksIdle
    /\ CopyOutInit
    /\ co_fs \in RoundTripFileSystems
    /\ co_paths.given
    /\ Range(co_paths.list) \subseteq RoundTripPatterns
    /\ RoundTripInit
    /\ NameIdle /\ CleanIdle /\ EnvIdle /\ RunIdle /\ JobIdle /\ PropsIdle
    /\ ResolveIdle /\ EnvMergeIdle /\ MatrixIdle
NextRoundTrip ==
    \/ CopyOutCheck
    \/ CopyOutMatch
    \/ CopyOutPull
    \/ CopyOutReturn
    \/ RoundTripProperties
    \/ RoundTripCopyIn
SpecRoundTrip == InitRoundTrip /\ [][NextRoundTrip]_vars

-----------------------------------------------------------------------------
(* SpecHooks: _resolve_runtime_value with the hooks the registered plugins  *)
(* implement. A command is the sequence of its parts, so that a fragment of *)
(* the job is in a command when it is one of the parts.                     *)

\* an Optional[str] as the parts of the string
NoCommand == [some |-> FALSE, parts |-> <<>>]
Command(parts) == [some |-> TRUE, parts |-> parts]

\* self.config.<property> or ""
OrEmpty(value) == IF value = None THEN "" ELSE value.str

\* what the plugin class returns for the hook of a property, as a list of
\* at most one result: the plugin classes implement lpci_execute_run, the
\* two conda ones lpci_execute_before_run and lpci_execute_after_run too
plugin_hook(job, job_property) ==
    LET plugin == job.plugin.str
    IN IF job_property = "run"
         THEN IF plugin \in {"tox", "pyproject-build"}
                THEN <<Command(<<"command of the plugin">>)>>
                ELSE <<Command(<<"setup of the plugin", OrEmpty(job.run)>>)>>
         ELSE IF plugin \in {"miniconda", "conda-build"}
           THEN IF job_property = "run_before"
                  THEN <<Command(<<"conda create", OrEmpty(job.run_before)>>)>>
                  ELSE <<Command(<<"conda env export">>
                            \o (IF OrEmpty(job.run_after) # ""
                                  THEN <<job.run_after.str>> ELSE <<>>))>>
           ELSE <<>>

\* getattr(pm.hook, hook_name)(): InternalPlugins implements none of the
\* three hooks, so the results are those of the plugin of the job
hook_results(job, job_property) ==
    IF job.plugin = None THEN <<>> ELSE plugin_hook(job, job_property)

HooksInit ==
    /\ hk_job \in ResolveJobs
    /\ hk_hook \in HookCalls
    /\ hk_pc = "call"
    /\ hk_value = NoCommand

\* _resolve_runtime_value
HooksResolve ==
    /\ hk_pc = "call"
    /\ LET command_from_config == hk_job[hk_hook.job_property]
           plugin == hk_job.plugin
           interpolated_run_command ==
               IF plugin # None /\ plugin.str \in DOMAIN PLUGINS
                 THEN PLUGINS[plugin.str]
                 ELSE FALSE
           rv == hook_results(hk_job, hk_hook.job_property)
       IN hk_value' =
              IF command_from_config # None /\ ~interpolated_run_command
                THEN Command(<<command_from_config.str>>)
                ELSE IF rv = <<>> THEN NoCommand ELSE Head(rv)
    /\ hk_pc' = "returned"
    /\ UNCHANGED <<hk_job, hk_hook>>
    /\ UNCHANGED otherThanHooks

InitHooks ==
    /\ HooksInit
    /\ NameIdle /\ CleanIdle /\ EnvIdle /\ RunIdle /\ JobIdle /\ PropsIdle
    /\ ResolveIdle /\ EnvMergeIdle /\ CopyOutIdle /\ MatrixIdle
    /\ RoundTripIdle
NextHooks == HooksResolve
SpecHooks == InitHooks /\ [][NextHooks]_vars

-----------------------------------------------------------------------------
(* Claims about the run and run-one commands (SpecRun) *)

\* the job at position pos of stage number stage has been attempted
Attempted(stage, pos) ==
    \E a \in Range(run_attempts) : a.stage = stage /\ a.pos = pos

\* declared order: by stage, then position in the stage, then variant index
Before(c, d) ==
    \/ c.stage < d.stage
    \/ c.stage = d.stage /\ c.pos < d.pos
    \/ c.stage = d.stage /\ c.pos = d.pos /\ c.index < d.index

\* the instance name computed for the variant a call of _run_job is for
NameOfCall(c) == job_instance_name(run_jobs[c.job][c.index + 1])

\* C1: in a pipeline run, when a job of a stage of two or more jobs fails
\* with a command error, every job of that stage is attempted, the run ends
\* with the error "Some jobs in <stage> failed; stopping." and exit code 1,
\* and no job of a later stage is launched.
C1_StageFailureRunsRestThenStops ==
    (run_pc = "done" /\ run_cmd = "run") =>
        \A a \in Range(run_attempts) :
            LET stage == run_pipeline[a.stage]
            IN (Len(stage) >= 2 /\ a.exc.type = "CommandError") =>
                  /\ \A pos \in 1..Len(stage) : Attempted(a.stage, pos)
                  /\ run_errors # <<>>
                  /\ run_errors[Len(run_errors)] = SomeJobsFailed(stage)
                  /\ run_ret = 1
                  /\ \A l \in Range(run_launched) : l.stage <= a.stage

\* C2: in a pipeline run the variants are launched in declared order (by
\* stage, by job within the stage, by variant within the job), each being a
\* declared variant of the job at its place, and a variant of a job of a
\* stage is launched only once every job of every earlier stage has been
\* attempted.
C2_LaunchedInDeclaredOrder ==
    run_cmd = "run" =>
        /\ \A i, j \in 1..Len(run_launched) :
              i < j => Before(run_launched[i], run_launched[j])
        /\ \A l \in Range(run_launched) :
              /\ l.job = run_pipeline[l.stage][l.pos]
              /\ l.index \in 0..(Len(run_jobs[l.job]) - 1)
              /\ \A k \in 1..(l.stage - 1) :
                    \A pos \in 1..Len(run_pipeline[k]) : Attempted(k, pos)

\* a run that launched both variants of a matrix job and then a job of the
\* next stage
C2_Witness ==
    /\ run_pc = "done"
    /\ run_cmd = "run"
    /\ Len(run_launched) = 3
    /\ run_launched[1].index = 0
    /\ run_launched[2].index = 1
    /\ run_launched[2].stage = 1
    /\ run_launched[3].stage = 2

OwnErrors ==
    {a.exc : a \in Range(run_attempts)}
        \cup {SomeJobsFailed(stage) : stage \in Range(run_pipeline)}

\* C6: with --clean, the clean-up has been invoked after every job attempted,
\* whether it succeeded, failed or had no definition, and every error
\* reported for the run is a job's own error.
C6_CleanupAfterEveryJob ==
    (run_pc = "done" /\ run_clean /\ run_attempts # <<>>) =>
        /\ Len(run_cleaned) = Len(run_attempts)
        /\ \A e \in Range(run_errors) : e \in OwnErrors

\* C7: in a pipeline run with --clean every instance launched has had its
\* name passed to the clean-up and every name passed is the name of a variant
\* attempted in this run; without --clean the clean-up is never invoked.
C7_CleanedNamesAreThoseOfTheRun ==
    (run_pc = "done" /\ run_cmd = "run") =>
        LET cleaned == UNION {Range(instances) : instances \in Range(run_cleaned)}
            launched == {l.name : l \in Range(run_launched)}
            attempted == {NameOfCall(c) : c \in Range(run_calls)}
        IN IF run_clean
             THEN launched \subseteq cleaned /\ cleaned \subseteq attempted
             ELSE run_cleaned = <<>>

\* C17: in a pipeline run, the sources.list written for a variant holds the
\* lines of the base (the existing file, or the replacement lines when
\* given), then the repositories given on the command line, then the lines
\* of that variant's own package_repositories, and nothing else.
C17_SourcesListHoldsOwnRepositories ==
    run_cmd = "run" =>
        \A l \in Range(run_launched) :
            Lines(l.sources) =
                (IF ReplacePackageRepositories # <<>>
                   THEN ReplacePackageRepositories
                   ELSE Lines(ExistingSourcesList))
                \o CliPackageRepositories
                \o run_jobs[l.job][l.index + 1].package_repositories

\* the call c of _run_job is for a variant not for the host architecture
NotForHost(c) ==
    HostArchitecture \notin PyIndex(run_jobs[c.job], c.index).architectures

\* the attempt of the job at position pos of stage number stage
AttemptOf(stage, pos) ==
    CHOOSE a \in Range(run_attempts) : a.stage = stage /\ a.pos = pos

\* no attempt of stage number stage raised
StageSucceeded(stage) ==
    \A a \in Range(run_attempts) : a.stage = stage => a.exc = NoExc

-----------------------------------------------------------------------------
(* Claims about instance names (SpecName) *)

\* C9: on one project (same project_name and inode), two distinct
\* (series, architecture) pairs never get the same instance name.
C9_DistinctPairsDistinctNames ==
    \A r1 \in issued, r2 \in issued :
        (<<r1.series, r1.architecture>> # <<r2.series, r2.architecture>>)
            => r1.name # r2.name

\* C10: every name get_instance_name returns for (project_name, inode,
\* series, architecture) is the same on every call and matches the regular
\* expression clean_project_environments builds for that project_name and
\* inode.
C10_NameMatchesCleanRegex ==
    \A r \in issued :
        /\ r.name = get_instance_name(nm_project, nm_inode,
                                      r.series, r.architecture)
        /\ clean_regex_match(sanitize_lxd_instance_name(nm_project),
                             IntToStr(nm_inode), r.name)

-----------------------------------------------------------------------------
(* Claims about clean_project_environments (SpecClean) *)

\* the pattern as the specification words it:
\* ^lpci-<sanitized project>-<inode>-.+-.+$
lpci_regex_match(project_name, inode, instance) ==
    LET head == InstanceNamePrefix \o project_name \o <<"-">> \o inode
        n == Len(head)
        len == Len(instance)
    IN /\ len >= n + 4
       /\ SubSeq(instance, 1, n) = head
       /\ instance[n + 1] = "-"
       /\ \E k \in (n + 3)..(len - 1) : instance[k] = "-"

\* the candidate list of a call: the given instances, or the namespace
CleanCandidates == IF cl_given # <<>> THEN cl_given ELSE cl_listing

\* C8: a call on an installed provider that returns has deleted, from the candidate list, exactly the
\* names matching ^lpci-<sanitized project>-<inode>-.+-.+$, in list order;
\* it returns exactly the names deleted and every non-matching instance
\* still exists.
C8_DeletesExactlyLpciMatches ==
    (cl_installed /\ cl_result.kind = "return") =>
        LET match(n) == lpci_regex_match(sanitize_lxd_instance_name(cl_project),
                                         IntToStr(cl_inode), n)
        IN /\ cl_calls = SelectSeq(CleanCandidates, match)
           /\ cl_result.value = cl_calls
           /\ \A n \in Range(cl_listing) : ~match(n) => n \in cl_lxd

-----------------------------------------------------------------------------
(* Claims about launched_environment (SpecEnv) *)

\* the calls made on the instance after it was yielded
Teardown ==
    LET yi == CHOOSE i \in 1..Len(env_calls) : env_calls[i].op = "yield"
    IN SubSeq(env_calls, yi + 1, Len(env_calls))

TeardownOrder == <<"rm", "unmount_all", "stop">>

\* C4: once the instance has been yielded, the calls that follow are the
\* removal of the project directory, then unmount_all, then stop, in that
\* order; the caller gets control back only after the removal was run, and
\* a normal completion, the body's error or the interrupt reaches the caller
\* only after all three were done.
C4_ScopeExitTearsDownInOrder ==
    env_yielded =>
        /\ Len(Teardown) <= Len(TeardownOrder)
        /\ \A i \in 1..Len(Teardown) : Teardown[i].op = TeardownOrder[i]
        /\ env_pc = "exit" => Len(Teardown) >= 1
        /\ (env_pc = "exit" /\ env_exc \in BodyOutcomes) =>
              Teardown = [i \in 1..3 |-> [op |-> TeardownOrder[i], ok |-> TRUE]]

\* an error raised in the body has reached the caller, after the teardown
C4_Witness ==
    /\ env_pc = "exit"
    /\ env_yielded
    /\ env_exc = "BodyError"
    /\ Len(Teardown) = 3
    /\ env_instance = "stopped"

\* C5: every instance the launcher returned has had stop called on it by the
\* time launched_environment returns or raises.
C5_LaunchedInstanceAlwaysStopped ==
    (env_pc = "exit" /\ env_instance # "none") =>
        \E i \in 1..Len(env_calls) : env_calls[i].op = "stop"

-----------------------------------------------------------------------------
(* Claims about the steps of a job (SpecJob) *)

\* the steps executed by the call number k of the run
StepsOfCall(k) == SelectSeq(job_steps, LAMBDA st : st.call = k)

\* C12: the steps of one variant are executed in the order snaps, apt update,
\* apt install, copy-in, before, run, after, copy-out, properties, each at
\* most once, and a step that failed is the last step of its variant.
C12_StepsInOrderStopAtFailure ==
    \A k \in 1..Len(job_plan) :
        LET steps == StepsOfCall(k)
        IN \A i, j \in 1..Len(steps) :
              i < j => /\ StepIndex(steps[i].step) < StepIndex(steps[j].step)
                       /\ steps[i].ok

\* the second variant of a run went through all nine steps
C12_Witness ==
    /\ job_pc = "done"
    /\ Len(job_plan) >= 2
    /\ [i \in 1..Len(StepsOfCall(2)) |-> StepsOfCall(2)[i].step] = StepOrder
    /\ \A st \in Range(job_steps) : st.ok

\* C13 as stated: a copy-in succeeds only if exactly one variant of the
\* input job wrote its output earlier in this run.
C13_CopyInNeedsInputRunEarlier ==
    \A st \in Range(job_steps) :
        (st.step = "copy_in" /\ st.ok) =>
            /\ Cardinality(st.seen) = 1
            /\ \A d \in st.seen : d.fresh

\* C13 as amended: a copy-in succeeds only if the output directory holds
\* exactly one directory of the input job, written in this run or before
\* it; with none the job fails, and with more than one the job fails.
C13_CopyInNeedsOneDirectory ==
    \A st \in Range(job_steps) :
        st.step = "copy_in" =>
            /\ st.ok => Cardinality(st.seen) = 1
            /\ st.seen = {} =>
                  ~st.ok /\ job_exc = InputNotExecuted(JobInput(job_plan[st.call].job))
            /\ Cardinality(st.seen) > 1 =>
                  ~st.ok /\ job_exc = InputAmbiguous(JobInput(job_plan[st.call].job))

\* a copy-in succeeded on the output one variant of build wrote in this
\* run, and the run ended well
C13_Witness ==
    /\ job_pc = "done"
    /\ \E st \in Range(job_steps) :
          /\ st.step = "copy_in"
          /\ st.ok
          /\ \A d \in st.seen : d.fresh /\ d.complete
    /\ job_exc = NoExc

\* C14: a before, run or after command of a variant with an input is run
\* only after the copy-in of that variant was performed.
C14_CommandsRunAfterCopyIn ==
    \A i \in 1..Len(job_steps) :
        LET st == job_steps[i]
        IN (/\ st.step \in {"run_before", "run", "run_after"}
            /\ JobInput(job_plan[st.call].job) # "none") =>
              \E j \in 1..(i - 1) :
                  /\ job_steps[j].call = st.call
                  /\ job_steps[j].step = "copy_in"
                  /\ job_steps[j].ok

-----------------------------------------------------------------------------
(* Claims about the properties file (SpecProps) *)

\* C15: when the configuration has a license, the properties written have
\* the key license equal to exactly {spdx, path} of that license, whatever
\* the static properties and the dynamic properties file hold.
C15_LicenseIsFinalOverwrite ==
    (pr_pc = "written" /\ pr_license # NoLicense) =>
        pr_written["license"] = Dict(pr_license.spdx, pr_license.path, FALSE)

\* the entries of a dynamic properties file applied one after the other, in
\* file order
RECURSIVE InFileOrder(_, _)
InFileOrder(properties, entries) ==
    IF entries = <<>> THEN properties
    ELSE LET e == Head(entries)
         IN InFileOrder([properties EXCEPT ![e.key] =
                            IF e.has_value THEN Str(e.value) ELSE Absent],
                        Tail(entries))

\* C16: the properties written are the static properties with the entries
\* of the dynamic properties file applied in file order: KEY=VALUE sets
\* KEY, KEY alone removes it, a key not there being no error.
C16_WrittenIsStaticThenDynamic ==
    pr_pc = "written" =>
        pr_written = InFileOrder(pr_static, pr_dynamic)

\* C16 as amended: the same for every key but the license of a
\* configuration that has a license, which the run adds to the properties.
C16_DynamicAppliedInFileOrder ==
    pr_pc = "written" =>
        \A key \in PropKeys :
            (key # "license" \/ pr_license = NoLicense) =>
                pr_written[key] = InFileOrder(pr_static, pr_dynamic)[key]

\* a file that removes a key that is not there, then sets one the static
\* properties set
C16_Witness ==
    /\ pr_pc = "written"
    /\ pr_license = NoLicense
    /\ pr_static["license"] = Absent
    /\ pr_static["version"] = Str("1.0")
    /\ pr_dynamic = <<Remove("license"), Assign("version", "2.0")>>
    /\ pr_written["version"] = Str("2.0")
    /\ pr_written["license"] = Absent

-----------------------------------------------------------------------------
(* Claims about the resolved commands (SpecResolve) *)

\* the job sets the field the call is about
FieldSet == rs_job[rs_hook.job_property].some

\* a plugin is selected and its class interpolates the run command
Interpolates ==
    rs_job.plugin.some /\ PLUGINS[rs_job.plugin.str]

-----------------------------------------------------------------------------
(* Claims about the environment of the commands (SpecEnvMerge) *)

\* the --set-env entries that name a key: what stands before their first "="
CliSetting(key) ==
    {i \in 1..Len(em_cli) :
        \E n \in 1..Len(em_cli[i]) :
            /\ em_cli[i][n] = "="
            /\ \A m \in 1..(n - 1) : em_cli[i][m] # "="
            /\ SubSeq(em_cli[i], 1, n - 1) = key}

\* what an entry gives its key: all that follows its first "="
CliValue(entry) ==
    SubSeq(entry, FirstEquals(entry, 1) + 1, Len(entry))

\* the layers below the command line
FromVariant(key) ==
    em_configuration # NoDict /\ em_configuration[key] # Missing
FromPlugin(key) == em_rv # <<>> /\ em_rv[1][key] # Missing

\* C19: every command of a job is run with the result of set_environment,
\* overlaid by the environment of the job, overlaid by the --set-env
\* entries: the command line wins over the job, the job over the plugin; a
\* key the job gives as null has no value unless the command line sets it;
\* an entry of the command line is split at its first "=" only.
C19_EnvironmentMergeOrder ==
    \A r \in 1..Len(em_runs) : \A key \in EnvKeys :
        LET value == em_runs[r].env[key]
            cli == CliSetting(key)
        IN IF cli # {}
             THEN \E i \in cli :
                     /\ \A j \in cli : j <= i
                     /\ value = StrValue(CliValue(em_cli[i]))
             ELSE IF FromVariant(key)
               THEN IF em_configuration[key] = NoneValue
                      THEN value.kind # "str"
                      ELSE value = em_configuration[key]
               ELSE IF FromPlugin(key)
                 THEN value = em_rv[1][key]
                 ELSE value = Missing

\* the three layers at once: the plugin sets A and B, the job deletes A and
\* sets B, the command line sets A to a value that holds a "="
C19_Witness ==
    /\ Len(em_runs) = 3
    /\ Len(em_rv) = 2
    /\ em_configuration[<<"A">>] = NoneValue
    /\ em_configuration[<<"B">>] = StrValue(<<"j">>)
    /\ em_cli = <<<<"A", "=", "c", "=", "d">>>>
    /\ em_runs[3].env[<<"A">>] = StrValue(<<"c", "=", "d">>)
    /\ em_runs[3].env[<<"B">>] = StrValue(<<"j">>)

-----------------------------------------------------------------------------
(* Claims about the copy-out (SpecCopyOut) *)

\* a path is under a directory, no component of it leading back up
Under(path, dir) ==
    /\ Len(path) > Len(dir)
    /\ \A i \in 1..Len(dir) : path[i] = dir[i]
    /\ \A i \in 1..Len(path) : path[i] # ".."

\* read from the build tree, d levels below its parent, the components
\* lead above that parent at some point
RECURSIVE LeadsAbove(_, _)
LeadsAbove(parts, d) ==
    IF parts = <<>> THEN FALSE
    ELSE LET below == IF Head(parts) = ".." THEN d - 1 ELSE d + 1
         IN below < 0 \/ LeadsAbove(Tail(parts), below)

LexicallyEscapes(pattern) ==
    pattern.absolute \/ LeadsAbove(pattern.parts, 1)

\* some match of some pattern resolves to a place outside the parent
MatchEscapes ==
    \E i \in 1..Len(co_paths.list) : \E f \in list_files(co_fs) :
        /\ ~co_paths.list[i].absolute
        /\ fnmatch(relpath(f), co_paths.list[i].parts)
        /\ ~Under(IF f = LinkFile THEN co_fs.link ELSE RemoteCwdParent \o f,
                  RemoteCwdParent)

\* C11: in copy-out every file copied is one of those listed under the
\* parent of the build tree, its resolved path is under that parent, and its
\* destination on the host is under the files directory of the job; with a
\* pattern that lexically escapes the parent nothing is copied and the job
\* fails, and with a match that resolves outside the parent the job fails.
C11_CopyOutStaysUnderParent ==
    /\ \A n \in 1..Len(co_pulled) :
          /\ \E f \in list_files(co_fs) :
                co_pulled[n].source = RemoteCwdParent \o f
          /\ Under(co_pulled[n].source, RemoteCwdParent)
          /\ Under(co_pulled[n].destination, OutputFiles)
    /\ (\E i \in 1..Len(co_paths.list) : LexicallyEscapes(co_paths.list[i]))
          => co_pulled = <<>> /\ co_pc \in {"check", "raised"}
    /\ MatchEscapes => co_pc # "done"

\* a file of the parent is copied, then a link that leads out of the parent
\* ends the job
C11_Witness ==
    /\ co_pc = "raised"
    /\ co_exc = CopyError("resolved")
    /\ co_fs.link = Secret
    /\ Len(co_pulled) = 2
    /\ co_pulled[1].source = RemoteCwdParent \o OtherFile
    /\ co_pulled[1].destination = Append(OutputFiles, "other.txt")
    /\ co_pulled[2].destination = Append(OutputFiles, ".launchpad.yaml")

\* C29: in copy-out no two distinct resolved source files are written to the
\* same destination on the host.
C29_NoDestinationWrittenTwice ==
    \A m, n \in 1..Len(co_pulled) :
        co_pulled[m].source # co_pulled[n].source =>
            co_pulled[m].destination # co_pulled[n].destination

-----------------------------------------------------------------------------
(* Further claims about the run and run-one commands (SpecRun) *)

\* _run_job was called for the variant with this index of the job at this
\* place
VariantCalled(stage, pos, index) ==
    \E c \in Range(run_calls) :
        c.stage = stage /\ c.pos = pos /\ c.index = index

\* C26: in a pipeline run, when a variant of a job of a stage of two or more
\* jobs fails with a command error, every variant of that job has been
\* attempted by the time the run ends.
C26_RemainingVariantsAttempted ==
    (run_pc = "done" /\ run_cmd = "run") =>
        \A a \in Range(run_attempts) :
            (Len(run_pipeline[a.stage]) >= 2 /\ a.exc.type = "CommandError") =>
                \A index \in 0..(Len(run_jobs[a.job]) - 1) :
                    VariantCalled(a.stage, a.pos, index)

\* the index run-one was given names a variant of the job
IndexInRange ==
    0 <= run_one_index /\ run_one_index < Len(run_jobs[run_one_job])

\* C28: run-one calls _run_job only for a defined job and an index from 0
\* to the number of its variants less one; for any other index of a defined
\* job it ends with "No job definition with index <index> for <job>",
\* nothing called and nothing launched.
C28_RunOneIndexChecked ==
    run_cmd = "run-one" =>
        /\ run_calls # <<>> => IndexInRange
        /\ (run_pc = "done" /\ run_jobs[run_one_job] # <<>> /\ ~IndexInRange) =>
              /\ run_errors = <<NoJobIndex(run_one_index, run_one_job)>>
              /\ run_launched = <<>>

\* the pipeline names a job that has no definition
UndefinedJobInPipeline ==
    \E s \in 1..Len(run_pipeline) : \E p \in 1..Len(run_pipeline[s]) :
        run_jobs[run_pipeline[s][p]] = <<>>

\* C21: a pipeline that names a job with no definition is refused as a
\* whole: no job of it is run.
C21_UndefinedJobStopsBeforeAnyJob ==
    (run_cmd = "run" /\ UndefinedJobInPipeline) =>
        run_calls = <<>> /\ run_launched = <<>>

-----------------------------------------------------------------------------
(* Further claims about clean_project_environments (SpecClean) *)

\* the names get_instance_name gives to the instances of the other projects
\* and directories
NamesOfOtherPairs ==
    {get_instance_name(project_name, inode, series, architecture) :
        project_name \in ProjectNames, inode \in Inodes,
        series \in BuilddSeries, architecture \in {ArchAmd64, ArchArm64}}
    \ {get_instance_name(cl_project, cl_inode, series, architecture) :
        series \in BuilddSeries, architecture \in {ArchAmd64, ArchArm64}}

-----------------------------------------------------------------------------
(* Claims about the matrix expansion (SpecMatrix) *)

\* C22: a job of an accepted configuration has at least one variant, and
\* each of its variants at least one architecture.
C22_AcceptedJobsHaveVariantsAndArchitectures ==
    mx_pc = "accepted" =>
        /\ Len(mx_expanded) >= 1
        /\ \A i \in 1..Len(mx_expanded) :
              Len(job_architectures(mx_expanded[i])) >= 1

\* the value a variant has at a key: that of the item if the item has the
\* key, else that of the job
Overridden(of_item, of_job, nothing) ==
    IF of_item # nothing THEN of_item ELSE of_job

\* C23: an entry with a matrix gives one variant for each item, in the order
\* of the matrix, with the keys of the entry (matrix apart) overridden by
\* those of the item; an entry without a matrix gives the one variant equal
\* to it.
C23_OneVariantPerItem ==
    mx_pc # "expand" =>
        IF mx_values.matrix.has
          THEN /\ Len(mx_expanded) = Len(mx_values.matrix.items)
               /\ \A i \in 1..Len(mx_expanded) :
                     LET item == mx_values.matrix.items[i]
                         variant == mx_expanded[i]
                     IN /\ variant.series =
                               Overridden(item.series, mx_values.series, NoKey)
                        /\ variant.run =
                               Overridden(item.run, mx_values.run, NoKey)
                        /\ variant.architectures =
                               Overridden(item.architectures,
                                          mx_values.architectures,
                                          NoArchitectures)
                        /\ variant.matrix = item.matrix
          ELSE mx_expanded = <<mx_values>>

\* the matrix of the test: the run of the job is kept by the first variant
\* and overridden by the second
C23_Witness ==
    /\ mx_pc = "accepted"
    /\ mx_values.run = "tox"
    /\ Len(mx_expanded) = 2
    /\ mx_expanded[1] =
           RawDict("bionic", ArchitecturesList(<<"amd64", "arm64">>), "tox",
                   NoMatrix)
    /\ mx_expanded[2] =
           RawDict("focal", ArchitecturesStr("amd64"), "tox -e py38", NoMatrix)

\* the lists of a list of lists, one after the other
RECURSIVE Concat(_)
Concat(lists) ==
    IF lists = <<>> THEN <<>> ELSE Head(lists) \o Concat(Tail(lists))

\* the variants expanded once more
ExpandedAgain ==
    Concat([i \in 1..Len(mx_expanded) |-> expand_job_values(mx_expanded[i])])

\* C24: expanding the variants of an expansion gives the same list of
\* variants, for every entry.
C24_ExpansionIdempotent ==
    mx_pc # "expand" => ExpandedAgain = mx_expanded

\* no item of the matrix of the entry has a matrix of its own
NoNestedMatrix ==
    \A i \in 1..Len(mx_values.matrix.items) :
        ~mx_values.matrix.items[i].matrix.has

\* C24 as amended: the same for the entries whose matrix items have no
\* matrix of their own, which the entries of an accepted configuration are.
C24_IdempotentWithoutNestedMatrix ==
    /\ (mx_pc # "expand" /\ NoNestedMatrix) => ExpandedAgain = mx_expanded
    /\ mx_pc = "accepted" => NoNestedMatrix

\* an accepted entry with a matrix of two items
C24_Witness ==
    /\ mx_pc = "accepted"
    /\ mx_values.matrix.has
    /\ Len(mx_values.matrix.items) = 2
    /\ mx_values.matrix.items[1] # mx_values.matrix.items[2]
    /\ ExpandedAgain = mx_expanded

-----------------------------------------------------------------------------
(* Claims about the round trip of the output of a job (SpecRoundTrip) *)

\* the files of the dependent instance under files/ of the target, by their
\* path under it
TargetFiles ==
    LET files ==
            normpath(RemoteCwd \o rt_input.target_directory, <<>>)
                \o <<"files">>
        under == SubSeq(files, Len(RemoteCwd) + 1, Len(files))
    IN {File(relative_to(f.path, under).path, f.bytes) :
           f \in {g \in rt_instance : relative_to(g.path, under).ok}}

\* C25: after the copy-out and the copy-in, files/ of the target holds
\* exactly the files of files/ on the host, at the same paths and with the
\* same bytes, and the properties file is that of the producing job.
C25_RoundTripExactly ==
    rt_pc = "done" =>
        /\ TargetFiles = HostFiles
        /\ rt_pushed = rt_properties

\* C25 as amended: every file of files/ on the host is in files/ of the
\* target at the same path with the same bytes, what else is there was in
\* the project tree, and the properties file is that of the producing job.
C25_RoundTripContains ==
    rt_pc = "done" =>
        /\ HostFiles \subseteq TargetFiles
        /\ \A f \in TargetFiles \ HostFiles :
              /\ f.bytes = TreeBytes
              /\ \A g \in HostFiles : g.path # f.path
        /\ rt_pushed = rt_properties

\* two files, one of them in a directory, are copied next to a file of the
\* project tree, with a properties file that says something
C25_Witness ==
    /\ rt_pc = "done"
    /\ rt_input.target_directory = <<"artifacts">>
    /\ File(<<"sub", "b.txt">>, RemoteCwdParent \o SubFile) \in TargetFiles
    /\ File(<<"other.txt">>, RemoteCwdParent \o TreeOtherFile) \in TargetFiles
    /\ File(<<"stale.txt">>, TreeBytes) \in TargetFiles
    /\ rt_pushed["version"] = Str("2.0")

-----------------------------------------------------------------------------
(* Claims about the commands resolved with the plugins (SpecHooks) *)

\* C30: when the job sets run_before (or run_after), the before (or after)
\* command resolved is not empty and has the fragment of the job in it,
\* whatever the plugin of the job.
C30_FragmentInResolvedCommand ==
    (/\ hk_pc = "returned"
     /\ hk_hook.job_property \in {"run_before", "run_after"}
     /\ hk_job[hk_hook.job_property] # None) =>
        /\ hk_value.some
        /\ hk_job[hk_hook.job_property].str \in Range(hk_value.parts)

====
